---- MODULE Spec2Model ----
(***************************************************************************)
(* Model of the PAK archive library (crate `paks`): the SPECK based        *)
(* authenticated encryption, the fixed records, the flat directory and     *)
(* the in-memory and file-backed editors and readers.                      *)
(*                                                                         *)
(* Scale of the model.  The library works on 64-bit words; here a word has *)
(* WORD_BYTES bytes (eight in the library) and every u32 field has half of *)
(* a word.  A word carries WORD_BYTES bytes of payload or of a name, so    *)
(* BLOCK_SIZE and NAME_BUF_LEN shrink with it while the block counts of    *)
(* the records (Header 5, InfoHeader 3, Descriptor 8) are those of the     *)
(* library.  The cipher runs the library's round function ROUNDS times.    *)
(***************************************************************************)
EXTENDS Integers, Sequences, FiniteSets, TLC

VARIABLES
    facade,     \* "memory" (MemoryEditor/MemoryReader) or "file" (FileEditor/FileReader)
    archive_key, \* the key the archive is written with
    pc,         \* where the caller is: "closed", "editing", inside finish, or "reading"
    file,       \* the stored archive: the blocks of the file, or of the Vec<Block> finish returned
    synced,     \* no write to the file since sync_data last returned Ok
    blocks,     \* MemoryEditor.blocks / MemoryReader.blocks
    directory,  \* the open editor's or reader's Directory (Vec<Descriptor>)
    high_mark,  \* FileEditor.high_mark
    ret,        \* the last call and what it returned
    rng,        \* number of nonces drawn so far from the entropy source
    base,       \* the stored archive and its header as the current session found them
    hist        \* the editing calls made and the sessions ended since the archive was created

vars == <<facade, archive_key, pc, file, synced, blocks, directory, high_mark, ret, rng, base, hist>>

-----------------------------------------------------------------------------
(* Scale and bounds *)

WORD_BYTES == 2
WordBits == 8 * WORD_BYTES
ROUNDS == 4
MaxOps == 2
MaxSessions == 2
MaxEdits == 3

WordMod == 2^WordBits
U32Bits == WordBits \div 2
U32Mod == 2^U32Bits
ByteMod == 256

BLOCK_SIZE == 2 * WORD_BYTES
NAME_BUF_LEN == 5 * WORD_BYTES
HeaderBLOCKS_LEN == 5
InfoHeaderBLOCKS_LEN == 3
DescriptorBLOCKS_LEN == 8

Min(a, b) == IF a < b THEN a ELSE b
Max(a, b) == IF a > b THEN a ELSE b

\* F applied to the value v, which is computed once and before F is
Let(v, F(_)) == CASE v = v -> F(v)

ZeroBlock == <<0, 0>>
ZeroBlocks(n) == [i \in 1..n |-> ZeroBlock]

-----------------------------------------------------------------------------
(* Word arithmetic: u64 operations of cipher.rs at WordBits bits *)

RECURSIVE xorbits(_, _, _)
xorbits(a, b, k) ==
    IF k = 0 THEN 0
    ELSE (((a % 2) + (b % 2)) % 2) + 2 * xorbits(a \div 2, b \div 2, k - 1)

\* the xor of two 4-bit values, as a table
XorTab ==
    SubSeq([a \in 1..16 |-> SubSeq([b \in 1..16 |-> xorbits(a - 1, b - 1, 4)], 1, 16)], 1, 16)

\* a ^ b on words, four bits at a time
RECURSIVE XorW(_, _)
XorW(a, b) ==
    IF a = 0 THEN b
    ELSE IF b = 0 THEN a
    ELSE XorTab[(a % 16) + 1][(b % 16) + 1] + 16 * XorW(a \div 16, b \div 16)

rotate_left(a, r) ==
    LET s == r % WordBits
        hi == 2^(WordBits - s)
    IN  ((a % hi) * 2^s) + (a \div hi)

rotate_right(a, r) == rotate_left(a, WordBits - (r % WordBits))

wrapping_add(a, b) == (a + b) % WordMod
wrapping_sub(a, b) == (a + WordMod - b) % WordMod

-----------------------------------------------------------------------------
(* cipher.rs: SPECK key expansion and block encryption *)

\* macro R!(x, y, k): one round, returns the new <<x, y>>
R(x, y, k) ==
    Let(XorW(wrapping_add(rotate_right(x, 8), y), k), LAMBDA x1 :
        <<x1, XorW(rotate_left(y, 3), x1)>>)

RECURSIVE expand_from(_, _, _)
expand_from(ba, rk, i) ==
    IF i = ROUNDS THEN rk
    ELSE Let(R(ba[1], ba[2], i), LAMBDA ba1 :
         Let(Append(rk, ba[2]), LAMBDA rk1 : expand_from(ba1, rk1, i + 1)))

expand(key) == expand_from(key, <<>>, 0)

RECURSIVE encrypt_from(_, _, _)
encrypt_from(yx, rk, i) ==
    IF i = ROUNDS THEN yx
    ELSE Let(R(yx[1], yx[2], rk[i + 1]), LAMBDA yx1 : encrypt_from(yx1, rk, i + 1))

encrypt(pt, rk) == encrypt_from(pt, rk, 0)

-----------------------------------------------------------------------------
(* crypt.rs: counter mode encryption with CBC-MAC over the ciphertext *)

xor(a, b) == <<XorW(a[1], b[1]), XorW(a[2], b[2])>>
counter(nonce, i) == <<nonce[1], wrapping_add(nonce[2], i)>>

\* the four values both encrypt_section and decrypt_section derive from key and nonce
derive(nonce, key) ==
    Let(expand(key), LAMBDA rk :
        [rke |-> expand(encrypt(counter(nonce, 0), rk)),
         rkm |-> expand(encrypt(counter(nonce, 1), rk)),
         ne  |-> encrypt(counter(nonce, 2), rk),
         nm  |-> encrypt(counter(nonce, 3), rk)])

\* the counter mode pass of both loops: block i is xored with encrypt(counter(ne, i), rke)
ctr(bs, d) ==
    SubSeq([i \in 1..Len(bs) |-> xor(encrypt(counter(d.ne, i - 1), d.rke), bs[i])], 1, Len(bs))

\* a MAC over the last block of the ciphertext alone
mac_loop_last(ct, rkm, mac, i) ==
    IF Len(ct) = 0 THEN mac ELSE encrypt(xor(mac, ct[Len(ct)]), rkm)

\* the MAC pass of both loops over the ciphertext ct from block i on
RECURSIVE mac_loop(_, _, _, _)
mac_loop(ct, rkm, mac, i) ==
    IF i > Len(ct) \/ mac # mac THEN mac
    ELSE mac_loop(ct, rkm, encrypt(xor(mac, ct[i]), rkm), i + 1)

\* encrypt_section(blocks, section, key); nonce is the value random() returned
encrypt_section(bs, section, key, nonce) ==
    Let(derive(nonce, key), LAMBDA d :
    Let(ctr(bs, d), LAMBDA ct :
        [blocks  |-> ct,
         section |-> [section EXCEPT !.nonce = nonce, !.mac = mac_loop(ct, d.rkm, d.nm, 1)]]))

\* a decrypt_section that computes the MAC over the blocks it decrypted
decrypt_section_plain_mac(bs, section, key) ==
    Let(derive(section.nonce, key), LAMBDA d :
    Let(mac_loop(ctr(bs, d), d.rkm, d.nm, 1), LAMBDA mac :
        [blocks |-> ctr(bs, d),
         ok     |-> XorW(section.mac[1], mac[1]) = 0 /\ XorW(section.mac[2], mac[2]) = 0]))

\* decrypt_section(blocks, section, key): the decrypted blocks and the MAC verdict
decrypt_section(bs, section, key) ==
    Let(derive(section.nonce, key), LAMBDA d :
    Let(mac_loop(bs, d.rkm, d.nm, 1), LAMBDA mac :
        [blocks |-> ctr(bs, d),
         ok     |-> XorW(section.mac[1], mac[1]) = 0 /\ XorW(section.mac[2], mac[2]) = 0]))

-----------------------------------------------------------------------------
(* lib.rs: the fixed records and their views as arrays of blocks *)

\* Section::default()
SectionDefault == [offset |-> 0, size |-> 0, nonce |-> ZeroBlock, mac |-> ZeroBlock]

\* Section::range_usize: the half-open block range offset..offset.wrapping_add(size)
range_usize(section) ==
    [start |-> section.offset, end |-> (section.offset + section.size) % U32Mod]

\* slice.get(range): the range lies inside a slice of length len
RangeInside(r, len) == r.start <= r.end /\ r.end <= len

bytes2blocks(byte_size) ==
    IF byte_size = 0 THEN 0 ELSE ((byte_size - 1) \div BLOCK_SIZE) + 1

\* InfoHeader::VERSION = u32::from_ne_bytes(*b"PAK1") on a little-endian machine, as a u32 of the model
VERSION == (80 + 65 * 256 + 75 * 65536 + 49 * 16777216) % U32Mod

\* the same four bytes read on a machine of the other endianness
FOREIGN_VERSION == (49 + 75 * 256 + 65 * 65536 + 80 * 16777216) % U32Mod

\* Name::default()
NameDefault == [i \in 1..NAME_BUF_LEN |-> 0]

\* Name::get: the name bytes of a name buffer
NameGet(buffer) == SubSeq(buffer, 1, Min(buffer[NAME_BUF_LEN], NAME_BUF_LEN - 1))

\* Name::set / Name::from: the buffer holding a name, cut off at NAME_BUF_LEN - 1 bytes
NameFrom(name) ==
    LET len == Min(Len(name), NAME_BUF_LEN - 1)
    IN  [i \in 1..NAME_BUF_LEN |->
            IF i = NAME_BUF_LEN THEN len ELSE IF i <= len THEN name[i] ELSE 0]

\* Descriptor::new(name, content_type, content_size)
DescriptorNew(name, content_type, content_size) ==
    [content_type |-> content_type, content_size |-> content_size,
     section |-> SectionDefault, name |-> NameFrom(name), meta |-> SectionDefault]

\* Descriptor::dir(name, len)
DescriptorDir(name, len) == DescriptorNew(name, 0, len)

is_dir(desc) == desc.content_type = 0
is_file(desc) == desc.content_type # 0

\* two u32 fields sharing one word, the first in the low half
PackU32(lo, hi) == lo + U32Mod * hi
LoU32(w) == w % U32Mod
HiU32(w) == (w \div U32Mod) % U32Mod

\* the WORD_BYTES bytes from index i of a byte sequence as one little-endian word (zero past the end)
RECURSIVE PackBytes(_, _, _)
PackBytes(bytes, i, k) ==
    IF k = WORD_BYTES THEN 0
    ELSE (IF i + k <= Len(bytes) THEN bytes[i + k] ELSE 0) + ByteMod * PackBytes(bytes, i, k + 1)

\* byte k (from 0) of a word
ByteOf(w, k) == (w \div (ByteMod^k)) % ByteMod

\* as_bytes of a block slice
BlocksAsBytes(bs) ==
    [i \in 1..(Len(bs) * BLOCK_SIZE) |->
        LET b == (i - 1) \div BLOCK_SIZE
            o == (i - 1) % BLOCK_SIZE
        IN  ByteOf(bs[b + 1][(o \div WORD_BYTES) + 1], o % WORD_BYTES)]

\* n blocks whose bytes are the given bytes followed by zeroes (copy_from_slice into zeroed blocks)
BytesAsBlocks(bytes, n) ==
    [b \in 1..n |->
        <<PackBytes(bytes, ((b - 1) * BLOCK_SIZE) + 1, 0),
          PackBytes(bytes, ((b - 1) * BLOCK_SIZE) + WORD_BYTES + 1, 0)>>]

\* a Section as the words it occupies in memory (offset and size share the first)
SectionWords(s) == <<PackU32(s.offset, s.size), s.nonce[1], s.nonce[2], s.mac[1], s.mac[2]>>
WordsSection(w, i) ==
    [offset |-> LoU32(w[i]), size |-> HiU32(w[i]),
     nonce |-> <<w[i + 1], w[i + 2]>>, mac |-> <<w[i + 3], w[i + 4]>>]

\* impl_blocks!(Descriptor): a Descriptor as its 8 blocks
DescriptorWords(d) ==
    <<PackU32(d.content_type, d.content_size)>> \o SectionWords(d.section)
        \o [j \in 1..5 |-> PackBytes(d.name, ((j - 1) * WORD_BYTES) + 1, 0)]
        \o SectionWords(d.meta)
DescriptorBlocks(d) ==
    Let(DescriptorWords(d), LAMBDA w :
        [b \in 1..DescriptorBLOCKS_LEN |-> <<w[(2 * b) - 1], w[2 * b]>>])

\* impl_blocks!(Descriptor): the Descriptor that 8 blocks are read as
BlocksDescriptor(bs) ==
    LET w == [i \in 1..(2 * DescriptorBLOCKS_LEN) |-> bs[((i - 1) \div 2) + 1][((i - 1) % 2) + 1]]
    IN  [content_type |-> LoU32(w[1]), content_size |-> HiU32(w[1]),
         section |-> WordsSection(w, 2),
         name |-> [i \in 1..NAME_BUF_LEN |->
                     ByteOf(w[7 + ((i - 1) \div WORD_BYTES)], (i - 1) % WORD_BYTES)],
         meta |-> WordsSection(w, 12)]

\* Directory::as_blocks
RECURSIVE as_blocks(_)
as_blocks(dir) ==
    IF dir = <<>> THEN <<>> ELSE DescriptorBlocks(Head(dir)) \o as_blocks(Tail(dir))

\* slice::from_raw_parts(blocks as *const Descriptor, n)
BlocksDirectory(bs, n) ==
    [k \in 1..n |->
        BlocksDescriptor(SubSeq(bs, ((k - 1) * DescriptorBLOCKS_LEN) + 1, k * DescriptorBLOCKS_LEN))]

\* impl_blocks!(InfoHeader): an InfoHeader as its 3 blocks and back
InfoBlocks(info) ==
    <<<<PackU32(info.version, info.unused), PackU32(info.directory.offset, info.directory.size)>>,
      info.directory.nonce, info.directory.mac>>
BlocksInfo(bs) ==
    [version |-> LoU32(bs[1][1]), unused |-> HiU32(bs[1][1]),
     directory |-> [offset |-> LoU32(bs[1][2]), size |-> HiU32(bs[1][2]),
                    nonce |-> bs[2], mac |-> bs[3]]]

\* a Header with the given directory section and everything else as the templates of finish set it
HeaderTemplate(offset, size) ==
    [nonce |-> ZeroBlock, mac |-> ZeroBlock,
     info |-> [version |-> VERSION, unused |-> 0,
               directory |-> [offset |-> offset, size |-> size,
                              nonce |-> ZeroBlock, mac |-> ZeroBlock]]]

\* Header::SECTION
HeaderSECTION ==
    [offset |-> HeaderBLOCKS_LEN - InfoHeaderBLOCKS_LEN, size |-> InfoHeaderBLOCKS_LEN,
     nonce |-> ZeroBlock, mac |-> ZeroBlock]

\* crypt::encrypt_header; nonce is the value random() returned.  The result is the
\* header as it is stored: nonce, mac and the encrypted blocks of its InfoHeader.
encrypt_header(header, key, nonce) ==
    Let(encrypt_section(InfoBlocks([header.info EXCEPT !.version = VERSION, !.unused = 0]),
                        SectionDefault, key, nonce), LAMBDA e :
        <<e.section.nonce, e.section.mac>> \o e.blocks)

\* crypt::decrypt_header on the 5 stored blocks of a header: the decrypted InfoHeader and the verdict
decrypt_header(hb, key) ==
    Let(decrypt_section(SubSeq(hb, 3, HeaderBLOCKS_LEN),
                        [HeaderSECTION EXCEPT !.nonce = hb[1], !.mac = hb[2]], key), LAMBDA d :
    Let(BlocksInfo(d.blocks), LAMBDA info :
        [info |-> info, ok |-> d.ok /\ info.version = VERSION]))

-----------------------------------------------------------------------------
(* dir.rs: the flat directory.  Indices are those of the library, from 0;  *)
(* dir[i + 1] is the library's dir[i].  A path is a sequence of bytes.     *)

SLASH == 47
BACKSLASH == 92
\* a separator test that knows '/' alone
IsSlash(c) == c = SLASH
IsSep(c) == c = SLASH \/ c = BACKSLASH

None == [some |-> FALSE]
Some(v) == [some |-> TRUE, val |-> v]

\* the bytes of a slice from index i (from 0) on: &path[i..]
From(path, i) == SubSeq(path, i + 1, Len(path))

\* name_eq(desc, path): Some(the path after the descriptor's name and one separator) or None
name_eq(desc, path) ==
    Let(NameGet(desc.name), LAMBDA name :
        IF Len(path) < Len(name) \/ SubSeq(path, 1, Len(name)) # name THEN None
        ELSE IF Len(path) = Len(name) THEN Some(<<>>)
        ELSE IF IsSep(path[Len(name) + 1]) THEN Some(From(path, Len(name) + 1))
        ELSE None)

\* next_sibling(desc, i, end), called with i < end
next_sibling(desc, i, end) ==
    IF is_dir(desc) THEN i + 1 + Min(end - (i + 1), desc.content_size) ELSE i + 1

\* the loop of find: the range [start, end) of the slice it returns
RECURSIVE find_loop(_, _, _, _)
find_loop(dir, path, i, end) ==
    IF i >= end THEN [start |-> 0, end |-> 0]
    ELSE Let(next_sibling(dir[i + 1], i, end), LAMBDA next_i :
         Let(name_eq(dir[i + 1], path), LAMBDA m :
             IF m.some /\ Len(m.val) = 0 THEN [start |-> i, end |-> next_i]
             ELSE IF m.some /\ is_dir(dir[i + 1]) THEN find_loop(dir, m.val, i + 1, next_i)
             ELSE find_loop(dir, path, next_i, end)))

\* find(dir, path)
find(dir, path) ==
    IF Len(path) = 0 THEN [start |-> 0, end |-> 0] ELSE find_loop(dir, path, 0, Len(dir))

\* find_desc(dir, path): the index of the descriptor, if any
find_desc(dir, path) ==
    Let(find(dir, path), LAMBDA r : IF r.end > r.start THEN Some(r.start) ELSE None)

\* Directory::find_file
find_file(dir, path) ==
    Let(find_desc(dir, path), LAMBDA r :
        IF r.some /\ is_file(dir[r.val + 1]) THEN r ELSE None)

\* the loop of dir_inc: the directory, the remaining path and the index returned
RECURSIVE dir_inc_loop(_, _, _, _, _)
dir_inc_loop(dir, path, inc, i, end) ==
    IF i >= end THEN [dir |-> dir, path |-> path, i |-> i]
    ELSE Let(next_sibling(dir[i + 1], i, end), LAMBDA next_i :
         Let(name_eq(dir[i + 1], path), LAMBDA m :
             IF m.some /\ Len(m.val) = 0 THEN [dir |-> dir, path |-> m.val, i |-> i]
             ELSE IF m.some /\ is_dir(dir[i + 1])
                  THEN dir_inc_loop(
                         [dir EXCEPT ![i + 1].content_size = (@ + inc + U32Mod) % U32Mod],
                         m.val, inc, i + 1, next_i)
             ELSE IF m.some THEN [dir |-> dir, path |-> path, i |-> i]
             ELSE dir_inc_loop(dir, path, inc, next_i, end)))

\* dir_inc(dir, path, inc)
dir_inc(dir, path, inc) == dir_inc_loop(dir, path, inc, 0, Len(dir))

\* the loop of flenck from byte i on
RECURSIVE flenck_loop(_, _, _)
flenck_loop(path, i, components) ==
    IF i = Len(path) THEN components + 1
    ELSE IF IsSep(path[i + 1])
         THEN IF i + 1 = Len(path) THEN components
              ELSE flenck_loop(path, i + 1, components + 1)
    ELSE flenck_loop(path, i + 1, components)

\* flenck(path): the number of descriptors create adds for the remaining path
flenck(path) == flenck_loop(path, 0, 0)

\* the length of the first component of a path: the k of the closure in create
RECURSIVE ComponentLen(_, _)
ComponentLen(tail, k) ==
    IF k < Len(tail) /\ ~IsSep(tail[k + 1]) THEN ComponentLen(tail, k + 1) ELSE k

\* the descriptors the splice of create inserts: n more, dir_len counting down
RECURSIVE spliced(_, _, _)
spliced(tail, dir_len, n) ==
    IF n = 0 THEN <<>>
    ELSE Let(ComponentLen(tail, 0), LAMBDA k :
             <<DescriptorDir(SubSeq(tail, 1, k), dir_len - 1)>>
                 \o spliced(From(tail, IF k = Len(tail) THEN k ELSE k + 1), dir_len - 1, n - 1))

\* create(dir, path): the directory afterwards and the index of the descriptor returned;
\* panic when the index expression dir[i] is out of bounds
create(dir, path) ==
    Let(dir_inc(dir, path, 0), LAMBDA dry :
    Let(flenck(dry.path), LAMBDA inc :
        IF inc = 0
        THEN [dir |-> dir, i |-> dry.i, panic |-> dry.i >= Len(dir)]
        ELSE Let(dir_inc(dir, path, inc), LAMBDA upd :
                 [dir   |-> SubSeq(upd.dir, 1, dry.i) \o spliced(upd.path, inc, inc)
                                \o SubSeq(upd.dir, dry.i + 1, Len(upd.dir)),
                  i     |-> dry.i + inc - 1,
                  panic |-> FALSE])))

\* remove(dir, path): the directory afterwards and the descriptor removed, if any
remove(dir, path) ==
    Let(dir_inc(dir, path, 0), LAMBDA dry :
        IF dry.i >= Len(dir) THEN [dir |-> dir, removed |-> None]
        ELSE Let(dir_inc(dir, path, -1), LAMBDA upd :
                 [dir     |-> SubSeq(upd.dir, 1, dry.i) \o SubSeq(upd.dir, dry.i + 2, Len(upd.dir)),
                  removed |-> Some(upd.dir[dry.i + 1])]))

-----------------------------------------------------------------------------
(* directory.rs: the methods of Directory the editors inherit through Deref *)

\* the three assignments create_link and move_file make to the descriptor create returned
link_to(c, file_desc) ==
    [c.dir EXCEPT ![c.i + 1] = [@ EXCEPT !.content_size = file_desc.content_size,
                                         !.content_type = file_desc.content_type,
                                         !.section = file_desc.section]]

\* Directory::create_link(path, file_desc)
create_link(dir, path, file_desc) ==
    IF is_file(file_desc)
    THEN Let(create(dir, path), LAMBDA c :
             IF c.panic THEN [dir |-> dir, panic |-> TRUE]
             ELSE [dir |-> link_to(c, file_desc), panic |-> FALSE])
    ELSE [dir |-> dir, panic |-> FALSE]

\* Directory::create_dir(path)
create_dir(dir, path) ==
    Let(create(dir, path), LAMBDA c :
        IF c.panic THEN [dir |-> dir, panic |-> TRUE]
        ELSE [dir   |-> [c.dir EXCEPT ![c.i + 1] = [@ EXCEPT !.content_type = 0,
                                                              !.content_size = 0,
                                                              !.section = SectionDefault]],
              panic |-> FALSE])

\* Directory::move_file(src_path, dest_path): the directory afterwards and the value returned
move_file(dir, src_path, dest_path) ==
    Let(find_desc(dir, src_path), LAMBDA s :
        IF ~(s.some /\ is_file(dir[s.val + 1])) THEN [dir |-> dir, moved |-> FALSE, panic |-> FALSE]
        ELSE Let(remove(dir, src_path), LAMBDA d :
                 IF ~d.removed.some THEN [dir |-> dir, moved |-> FALSE, panic |-> FALSE]
                 ELSE Let(create(d.dir, dest_path), LAMBDA c :
                          IF c.panic THEN [dir |-> d.dir, moved |-> FALSE, panic |-> TRUE]
                          ELSE [dir |-> link_to(c, d.removed.val), moved |-> TRUE, panic |-> FALSE])))

-----------------------------------------------------------------------------
(* dir::fsck.  The log is counted in error lines.  `high_mark - section.size` is a u32          *)
(* subtraction: with overflow checks on (a debug build) it panics when size > high_mark, with   *)
(* them off (a release build) it wraps; checked says which build runs.                          *)

\* str::from_utf8(bytes).is_ok()
RECURSIVE is_utf8(_)
is_utf8(b) ==
    IF Len(b) = 0 THEN TRUE
    ELSE IF b[1] < 128 THEN is_utf8(From(b, 1))
    ELSE IF b[1] \in 194..223
         THEN Len(b) >= 2 /\ b[2] \in 128..191 /\ is_utf8(From(b, 2))
    ELSE IF b[1] \in 224..239
         THEN /\ Len(b) >= 3
              /\ b[2] \in (IF b[1] = 224 THEN 160..191 ELSE IF b[1] = 237 THEN 128..159 ELSE 128..191)
              /\ b[3] \in 128..191
              /\ is_utf8(From(b, 3))
    ELSE IF b[1] \in 240..244
         THEN /\ Len(b) >= 4
              /\ b[2] \in (IF b[1] = 240 THEN 144..191 ELSE IF b[1] = 244 THEN 128..143 ELSE 128..191)
              /\ b[3] \in 128..191
              /\ b[4] \in 128..191
              /\ is_utf8(From(b, 4))
    ELSE FALSE

\* the number of TRUE among the conditions of the error branches taken
Errors(conds) == Cardinality({j \in 1..Len(conds) : conds[j]})

FsckStart == [success |-> TRUE, errors |-> 0, panic |-> FALSE, overflow |-> FALSE]

\* the two name checks of fsck_rec on a descriptor
fsck_name(desc) ==
    <<desc.name[NAME_BUF_LEN] >= NAME_BUF_LEN, ~is_utf8(NameGet(desc.name))>>

\* the four section checks of fsck_rec on a file descriptor; the third follows the subtraction
fsck_file(desc, hm) ==
    <<desc.section.offset < HeaderBLOCKS_LEN,
      desc.section.size > hm,
      desc.section.offset > (hm - desc.section.size + U32Mod) % U32Mod,
      bytes2blocks(desc.content_size) > desc.section.size>>

\* fsck_rec on the slice dir[i..end], acc holding success and the log so far
RECURSIVE fsck_rec(_, _, _, _, _, _)
fsck_rec(dir, i, end, hm, checked, acc) ==
    IF i >= end \/ acc.panic THEN acc
    ELSE Let(dir[i + 1], LAMBDA desc :
         Let(Errors(fsck_name(desc)), LAMBDA named :
             IF is_file(desc)
             THEN IF desc.section.size > hm /\ checked
                  THEN [success  |-> FALSE,
                        errors   |-> acc.errors + named + Errors(SubSeq(fsck_file(desc, hm), 1, 2)),
                        panic    |-> TRUE,
                        overflow |-> TRUE]
                  ELSE Let(named + Errors(fsck_file(desc, hm)), LAMBDA n :
                           fsck_rec(dir, i + 1, end, hm, checked,
                                    [success  |-> acc.success /\ n = 0,
                                     errors   |-> acc.errors + n,
                                     panic    |-> FALSE,
                                     overflow |-> acc.overflow \/ desc.section.size > hm]))
             ELSE IF desc.content_size > end - (i + 1)
                  THEN [acc EXCEPT !.success = FALSE, !.errors = @ + named + 1]
                  ELSE Let(fsck_rec(dir, i + 1, i + 1 + desc.content_size, hm, checked,
                                    [FsckStart EXCEPT !.errors = acc.errors + named,
                                                      !.overflow = acc.overflow]), LAMBDA children :
                           fsck_rec(dir, i + 1 + desc.content_size, end, hm, checked,
                                    [success  |-> acc.success /\ named = 0,
                                     errors   |-> children.errors,
                                     panic    |-> children.panic,
                                     overflow |-> children.overflow]))))

\* dir::fsck(dir, high_mark, log) / Directory::fsck
fsck(dir, hm, checked) == fsck_rec(dir, 0, Len(dir), hm, checked, FsckStart)

-----------------------------------------------------------------------------
(* crypt::random: the entropy source, as the stream of nonces it hands out *)

\* the n-th nonce drawn (getrandom fills section.nonce)
random(n) == <<((n * 40503) + 12345) % WordMod, ((n * 25173) + 13849) % WordMod>>

-----------------------------------------------------------------------------
(* Results of calls: kind is "Ok", an io::ErrorKind, "NotFound" for a None, *)
(* or "panic" when the call does not return.                                *)

\* before is the editor's directory when an editing call was made; k the key given to an opener
Ret(op, kind, path, val) ==
    [op |-> op, kind |-> kind, path |-> path, val |-> val, before |-> <<>>, k |-> <<>>]

\* the bytes of the section whatever content_size says
data_of_whole(desc, bs) == BlocksAsBytes(bs)

\* the tail of read_data in all four readers: the bytes of the section cut to content_size
data_of(desc, bs) ==
    Let(BlocksAsBytes(bs), LAMBDA data : SubSeq(data, 1, Min(Len(data), desc.content_size)))

\* MemoryEditFile::set_content / FileEditFile::set_content
set_content(desc, content_type, content_size) ==
    [desc EXCEPT !.content_type = Max(1, content_type), !.content_size = content_size]

\* the header both finish functions build: the encrypted directory and the stored header
finish_encrypt(mark, dir, key, n) ==
    Let(encrypt_section(as_blocks(dir), HeaderTemplate(mark, Len(dir) % U32Mod).info.directory,
                        key, random(n)), LAMBDA d :
    Let(encrypt_section(InfoBlocks([HeaderTemplate(0, 0).info EXCEPT !.directory = d.section]),
                        HeaderSECTION, key, random(n + 1)), LAMBDA h :
        [dir_blocks |-> d.blocks, header |-> <<h.section.nonce, h.section.mac>> \o h.blocks]))

-----------------------------------------------------------------------------
(* memory.rs, memory/editor.rs, memory/edit_file.rs, memory/reader.rs *)

\* memory::read_section
mem_read_section(bs, section, key) ==
    Let(range_usize(section), LAMBDA r :
        IF ~RangeInside(r, Len(bs)) THEN [kind |-> "InvalidInput", blocks |-> <<>>]
        ELSE Let(decrypt_section(SubSeq(bs, r.start + 1, r.end), section, key), LAMBDA d :
                 IF ~d.ok THEN [kind |-> "InvalidData", blocks |-> <<>>]
                 ELSE [kind |-> "Ok", blocks |-> d.blocks]))

\* memory::from_blocks
from_blocks(bs, key) ==
    IF Len(bs) < HeaderBLOCKS_LEN THEN [ok |-> FALSE, blocks |-> bs, directory |-> <<>>]
    ELSE Let(decrypt_header(SubSeq(bs, 1, HeaderBLOCKS_LEN), key), LAMBDA h :
         Let(h.info.directory.offset, LAMBDA dir_start :
         Let(dir_start + (h.info.directory.size * DescriptorBLOCKS_LEN), LAMBDA dir_end :
             IF ~h.ok \/ dir_end > Len(bs) THEN [ok |-> FALSE, blocks |-> bs, directory |-> <<>>]
             ELSE Let(decrypt_section(SubSeq(bs, dir_start + 1, dir_end), h.info.directory, key),
                      LAMBDA d :
                      [ok        |-> TRUE,
                       blocks    |-> IF Len(bs) = dir_end THEN SubSeq(bs, 1, dir_start)
                                     ELSE SubSeq(bs, 1, dir_start) \o d.blocks
                                              \o SubSeq(bs, dir_end + 1, Len(bs)),
                       directory |-> BlocksDirectory(d.blocks, h.info.directory.size)]))))

\* MemoryEditor::from_bytes
MemoryEditor_from_bytes(bytes, key) ==
    IF Len(bytes) % BLOCK_SIZE # 0 THEN [kind |-> "InvalidInput", blocks |-> <<>>, directory |-> <<>>]
    ELSE Let(from_blocks(BytesAsBlocks(bytes, Len(bytes) \div BLOCK_SIZE), key), LAMBDA r :
             IF r.ok THEN [kind |-> "Ok", blocks |-> r.blocks, directory |-> r.directory]
             ELSE [kind |-> "panic", blocks |-> <<>>, directory |-> <<>>])

\* MemoryReader::from_bytes
MemoryReader_from_bytes(bytes, key) ==
    IF Len(bytes) % BLOCK_SIZE # 0 THEN [kind |-> "InvalidInput", blocks |-> <<>>, directory |-> <<>>]
    ELSE Let(from_blocks(BytesAsBlocks(bytes, Len(bytes) \div BLOCK_SIZE), key), LAMBDA r :
             IF r.ok THEN [kind |-> "Ok", blocks |-> r.blocks, directory |-> r.directory]
             ELSE [kind |-> "InvalidData", blocks |-> <<>>, directory |-> <<>>])

\* MemoryEditor::create_file: edit_file, set_content, allocate_data, write_data
MemoryEditor_create_file(bs, dir, path, data, key, n) ==
    Let(create(dir, path), LAMBDA c :
        IF c.panic THEN [panic |-> TRUE, blocks |-> bs, directory |-> dir]
        ELSE Let(set_content(c.dir[c.i + 1], 1, Len(data) % U32Mod), LAMBDA desc :
             Let([desc.section EXCEPT !.offset = Len(bs) % U32Mod,
                                      !.size = bytes2blocks(desc.content_size) % U32Mod], LAMBDA section :
             Let(bs \o ZeroBlocks(section.size), LAMBDA grown :
             Let(range_usize(section), LAMBDA r :
                 IF ~RangeInside(r, Len(grown))
                 THEN [panic |-> TRUE, blocks |-> bs, directory |-> dir]
                 ELSE Let(encrypt_section(
                              BytesAsBlocks(SubSeq(data, 1, Min((r.end - r.start) * BLOCK_SIZE, Len(data))),
                                            r.end - r.start),
                              section, key, random(n)), LAMBDA e :
                          [panic     |-> FALSE,
                           blocks    |-> SubSeq(grown, 1, r.start) \o e.blocks
                                            \o SubSeq(grown, r.end + 1, Len(grown)),
                           directory |-> [c.dir EXCEPT ![c.i + 1] =
                                            [desc EXCEPT !.section = e.section]]]))))))

\* MemoryEditor::read_data / MemoryReader::read_data
mem_read_data(bs, desc, key) ==
    IF ~is_file(desc) THEN [kind |-> "InvalidInput", val |-> <<>>]
    ELSE Let(mem_read_section(bs, desc.section, key), LAMBDA r :
             IF r.kind # "Ok" THEN [kind |-> r.kind, val |-> <<>>]
             ELSE [kind |-> "Ok", val |-> data_of(desc, r.blocks)])

\* MemoryEditor::finish: the blocks it returns
MemoryEditor_finish(bs, dir, key, n) ==
    Let(bs \o ZeroBlocks(Max(0, HeaderBLOCKS_LEN - Len(bs))), LAMBDA padded :
    Let(finish_encrypt(Len(padded) % U32Mod, dir, key, n), LAMBDA e :
        e.header \o SubSeq(padded, HeaderBLOCKS_LEN + 1, Len(padded)) \o e.dir_blocks))

\* MemoryEditor::high_mark
mem_high_mark(bs) == Len(bs) % U32Mod

\* a gc loop that leaves a descriptor whose section is not inside the blocks as it is
RECURSIVE gc_loop_keep(_, _, _, _)
gc_loop_keep(bs, dir, j, acc) ==
    IF j > Len(dir) THEN [blocks |-> acc, directory |-> dir]
    ELSE IF is_file(dir[j])
         THEN Let(range_usize(dir[j].section), LAMBDA r :
                  IF RangeInside(r, Len(bs))
                  THEN gc_loop_keep(bs, [dir EXCEPT ![j].section.offset = Len(acc) % U32Mod], j + 1,
                                    acc \o SubSeq(bs, r.start + 1, r.end))
                  ELSE gc_loop_keep(bs, dir, j + 1, acc))
    ELSE gc_loop_keep(bs, dir, j + 1, acc)

\* the loop of MemoryEditor::gc from descriptor j on, acc the new blocks
RECURSIVE gc_loop(_, _, _, _)
gc_loop(bs, dir, j, acc) ==
    IF j > Len(dir) THEN [blocks |-> acc, directory |-> dir]
    ELSE IF is_file(dir[j])
         THEN Let(range_usize(dir[j].section), LAMBDA r :
                  IF RangeInside(r, Len(bs))
                  THEN gc_loop(bs, [dir EXCEPT ![j].section.offset = Len(acc) % U32Mod], j + 1,
                               acc \o SubSeq(bs, r.start + 1, r.end))
                  ELSE gc_loop(bs, [dir EXCEPT ![j].section = SectionDefault], j + 1, acc))
    ELSE gc_loop(bs, dir, j + 1, acc)

\* a gc that compacts the blocks and leaves the descriptors pointing where they did
gc_stale(bs, dir) ==
    [blocks |-> gc_loop(bs, dir, 1, ZeroBlocks(HeaderBLOCKS_LEN)).blocks, directory |-> dir]

\* MemoryEditor::gc
gc(bs, dir) == gc_loop(bs, dir, 1, ZeroBlocks(HeaderBLOCKS_LEN))

\* a reencrypt_data that encrypts what is stored without decrypting it first
mem_reencrypt_stored(bs, desc, old_key, key, n) ==
    Let(range_usize(desc.section), LAMBDA r :
        IF ~RangeInside(r, Len(bs)) THEN [kind |-> "panic", blocks |-> bs, desc |-> desc]
        ELSE Let(encrypt_section(SubSeq(bs, r.start + 1, r.end), desc.section, key, random(n)), LAMBDA e :
                 [kind   |-> "Ok",
                  blocks |-> SubSeq(bs, 1, r.start) \o e.blocks \o SubSeq(bs, r.end + 1, Len(bs)),
                  desc   |-> [desc EXCEPT !.section = e.section]]))

\* MemoryEditFile::reencrypt_data(old_key, key) on the descriptor the handle holds; it returns ()
mem_reencrypt_data(bs, desc, old_key, key, n) ==
    Let(range_usize(desc.section), LAMBDA r :
        IF ~RangeInside(r, Len(bs)) THEN [kind |-> "panic", blocks |-> bs, desc |-> desc]
        ELSE Let(decrypt_section(SubSeq(bs, r.start + 1, r.end), desc.section, old_key), LAMBDA d :
             Let(encrypt_section(d.blocks, desc.section, key, random(n)), LAMBDA e :
                 [kind   |-> "Ok",
                  blocks |-> SubSeq(bs, 1, r.start) \o e.blocks \o SubSeq(bs, r.end + 1, Len(bs)),
                  desc   |-> [desc EXCEPT !.section =
                                 IF d.ok THEN e.section ELSE [e.section EXCEPT !.mac = desc.section.mac]]])))

-----------------------------------------------------------------------------
(* file_io.rs, file_io/editor.rs, file_io/edit_file.rs, file_io/reader.rs.  *)
(* The file is the sequence of its blocks.                                  *)

\* seek(Start(offset blocks)) and write_all(bs): the file afterwards (a gap is read as zeroes)
write_at(f, offset, bs) ==
    IF Len(bs) = 0 THEN f
    ELSE [i \in 1..Max(Len(f), offset + Len(bs)) |->
            IF i > offset /\ i <= offset + Len(bs) THEN bs[i - offset]
            ELSE IF i <= Len(f) THEN f[i] ELSE ZeroBlock]

\* seek(Start(offset blocks)) and read_exact of n blocks: None is UnexpectedEof
read_at(f, offset, n) ==
    IF n = 0 THEN Some(<<>>)
    ELSE IF offset + n <= Len(f) THEN Some(SubSeq(f, offset + 1, offset + n))
    ELSE None

\* file_io::read_header
read_header(f, key) ==
    Let(read_at(f, 0, HeaderBLOCKS_LEN), LAMBDA hb :
        IF ~hb.some THEN [kind |-> "UnexpectedEof", info |-> HeaderTemplate(0, 0).info, directory |-> <<>>]
        ELSE Let(decrypt_header(hb.val, key), LAMBDA h :
             IF ~h.ok THEN [kind |-> "InvalidData", info |-> h.info, directory |-> <<>>]
             ELSE Let(read_at(f, h.info.directory.offset,
                              h.info.directory.size * DescriptorBLOCKS_LEN), LAMBDA db :
                  IF ~db.some THEN [kind |-> "UnexpectedEof", info |-> h.info, directory |-> <<>>]
                  ELSE Let(decrypt_section(db.val, h.info.directory, key), LAMBDA d :
                       IF ~d.ok
                       THEN [kind |-> "InvalidData", info |-> h.info, directory |-> <<>>]
                       ELSE [kind |-> "Ok", info |-> h.info,
                             directory |-> BlocksDirectory(d.blocks, h.info.directory.size)]))))

\* a read_section that hands out what it decrypted whatever the MAC comparison said
file_read_section_unchecked(f, section, key) ==
    Let(read_at(f, section.offset, section.size), LAMBDA bs :
        IF ~bs.some THEN [kind |-> "UnexpectedEof", blocks |-> <<>>]
        ELSE [kind |-> "Ok", blocks |-> decrypt_section(bs.val, section, key).blocks])

\* file_io::read_section
file_read_section(f, section, key) ==
    Let(read_at(f, section.offset, section.size), LAMBDA bs :
        IF ~bs.some THEN [kind |-> "UnexpectedEof", blocks |-> <<>>]
        ELSE Let(decrypt_section(bs.val, section, key), LAMBDA d :
                 IF ~d.ok THEN [kind |-> "InvalidData", blocks |-> <<>>]
                 ELSE [kind |-> "Ok", blocks |-> d.blocks]))

\* FileEditor::read_data / FileReader::read_data
file_read_data(f, desc, key) ==
    IF ~is_file(desc) THEN [kind |-> "InvalidInput", val |-> <<>>]
    ELSE Let(file_read_section(f, desc.section, key), LAMBDA r :
             IF r.kind # "Ok" THEN [kind |-> r.kind, val |-> <<>>]
             ELSE [kind |-> "Ok", val |-> data_of(desc, r.blocks)])

\* an empty archive whose directory is placed after an InfoHeader's worth of blocks
create_empty_low(key, n) ==
    Let(encrypt_section(<<>>, HeaderTemplate(InfoHeaderBLOCKS_LEN, 0).info.directory, key, random(n)),
        LAMBDA d :
        encrypt_header([HeaderTemplate(0, 0) EXCEPT !.info.directory = d.section], key, random(n + 1)))

\* FileEditor::create_empty: the file it writes
create_empty(key, n) ==
    Let(encrypt_section(<<>>, HeaderTemplate(HeaderBLOCKS_LEN, 0).info.directory, key, random(n)),
        LAMBDA d :
        encrypt_header([HeaderTemplate(0, 0) EXCEPT !.info.directory = d.section], key, random(n + 1)))

\* FileEditor::open: the high mark of the editor it returns
open_high_mark(info) ==
    (info.directory.offset + (info.directory.size * InfoHeaderBLOCKS_LEN)) % U32Mod

\* FileEditor::open
open(f, key) ==
    Let(read_header(f, key), LAMBDA r :
        [kind |-> r.kind, info |-> r.info, directory |-> r.directory,
         high_mark |-> IF r.kind = "Ok" THEN open_high_mark(r.info) ELSE 0])

\* FileEditor::create_file: edit_file, set_content, allocate_data, write_data (the write succeeds)
FileEditor_create_file(f, dir, mark, path, data, key, n) ==
    Let(create(dir, path), LAMBDA c :
        IF c.panic THEN [panic |-> TRUE, file |-> f, directory |-> dir, high_mark |-> mark]
        ELSE Let(set_content(c.dir[c.i + 1], 1, Len(data) % U32Mod), LAMBDA desc :
             Let([desc.section EXCEPT !.offset = mark,
                                      !.size = bytes2blocks(desc.content_size) % U32Mod], LAMBDA section :
             Let(encrypt_section(
                     BytesAsBlocks(SubSeq(data, 1, Min(section.size * BLOCK_SIZE, Len(data))), section.size),
                     section, key, random(n)), LAMBDA e :
                 [panic     |-> FALSE,
                  file      |-> write_at(f, mark, e.blocks),
                  directory |-> [c.dir EXCEPT ![c.i + 1] = [desc EXCEPT !.section = e.section]],
                  high_mark |-> (mark + section.size) % U32Mod]))))

\* FileEditFile::reencrypt_data(old_key, key) on the descriptor the handle holds (the write succeeds)
file_reencrypt_data(f, desc, old_key, key, n) ==
    Let(read_at(f, desc.section.offset, desc.section.size), LAMBDA bs :
        IF ~bs.some THEN [kind |-> "UnexpectedEof", file |-> f, desc |-> desc]
        ELSE Let(decrypt_section(bs.val, desc.section, old_key), LAMBDA d :
                 IF ~d.ok THEN [kind |-> "InvalidData", file |-> f, desc |-> desc]
                 ELSE Let(encrypt_section(d.blocks, desc.section, key, random(n)), LAMBDA e :
                          [kind |-> "Ok",
                           file |-> write_at(f, desc.section.offset, e.blocks),
                           desc |-> [desc EXCEPT !.section = e.section]])))

-----------------------------------------------------------------------------
(* The callers of the library and what they pass in *)

K1 == <<13, 42>>
K2 == <<1, 2>>
Keys == {K1, K2}

PathA == <<97>>                 \* "a"
PathDA == <<100, 47, 97>>       \* "d/a"
PathASlash == <<97, 47>>        \* "a/"
Paths == {PathA, PathDA, PathASlash}
Datas == {<<>>, <<1, 2, 3, 4, 5>>}

Idle == Ret("none", "Ok", <<>>, <<>>)
Event(ev, path, data) == [ev |-> ev, path |-> path, data |-> data]
Count(h, ev) == Cardinality({i \in 1..Len(h) : h[i].ev = ev})
Log(e) == hist' = Append(hist, e)
InSession == pc \in {"editing", "dir_written", "synced"}

\* MemoryEditor::new
MemoryEditor_new == [blocks |-> ZeroBlocks(HeaderBLOCKS_LEN), directory |-> <<>>]

\* an empty archive: FileEditor::create_empty, or MemoryEditor::new().finish(archive_key)
EmptyArchive(fac, k) ==
    IF fac = "file" THEN create_empty(k, 0)
    ELSE MemoryEditor_finish(MemoryEditor_new.blocks, MemoryEditor_new.directory, k, 0)

\* the stored archive with nothing open
AtRest(fac, k, f) ==
    /\ facade = fac
    /\ archive_key = k
    /\ pc = "closed"
    /\ file = f
    /\ synced = TRUE
    /\ blocks = <<>>
    /\ directory = <<>>
    /\ high_mark = 0
    /\ ret = Idle
    /\ base = [file |-> f, info |-> HeaderTemplate(0, 0).info, directory |-> <<>>, orig |-> f]
    /\ hist = <<>>

Init ==
    \E fac \in {"memory", "file"}, k \in Keys :
        /\ AtRest(fac, k, EmptyArchive(fac, k))
        /\ rng = 2

\* FileEditor::open(path, k), or MemoryEditor::from_bytes(the first n bytes of the archive, k)
OpenEditor(k, n) ==
    /\ pc = "closed"
    /\ IF facade = "file"
       THEN \E r \in {open(file, k)} :
                /\ pc' = IF r.kind = "Ok" THEN "editing" ELSE "closed"
                /\ directory' = r.directory
                /\ high_mark' = r.high_mark
                /\ blocks' = <<>>
                /\ base' = IF r.kind = "Ok"
                           THEN [base EXCEPT !.file = file, !.info = r.info, !.directory = r.directory]
                           ELSE base
                /\ ret' = [Ret("FileEditor::open", r.kind, <<>>, <<>>) EXCEPT !.k = k]
       ELSE \E r \in {MemoryEditor_from_bytes(SubSeq(BlocksAsBytes(file), 1, n), k)} :
                /\ pc' = IF r.kind = "Ok" THEN "editing" ELSE "closed"
                /\ directory' = r.directory
                /\ high_mark' = 0
                /\ blocks' = r.blocks
                /\ base' = IF r.kind = "Ok"
                           THEN [base EXCEPT !.file = file, !.directory = r.directory,
                                             !.info = decrypt_header(SubSeq(file, 1, HeaderBLOCKS_LEN), k).info]
                           ELSE base
                /\ ret' = [Ret("MemoryEditor::from_bytes", r.kind, <<>>, <<n>>) EXCEPT !.k = k]
    /\ UNCHANGED <<facade, archive_key, file, synced, rng>>

\* create_file(p, d, archive_key) on the open editor; a panic unwinds and drops the editor
CreateFile(p, d) ==
    /\ pc = "editing"
    /\ IF facade = "file"
       THEN \E r \in {FileEditor_create_file(file, directory, high_mark, p, d, archive_key, rng)} :
                /\ file' = r.file
                /\ synced' = (synced /\ r.file = file)
                /\ blocks' = blocks
                /\ directory' = IF r.panic THEN <<>> ELSE r.directory
                /\ high_mark' = IF r.panic THEN 0 ELSE r.high_mark
                /\ pc' = IF r.panic THEN "closed" ELSE "editing"
                /\ rng' = IF r.panic THEN rng ELSE rng + 1
                /\ ret' = [Ret("create_file", IF r.panic THEN "panic" ELSE "Ok", p, d)
                              EXCEPT !.before = directory]
       ELSE \E r \in {MemoryEditor_create_file(blocks, directory, p, d, archive_key, rng)} :
                /\ file' = file
                /\ synced' = synced
                /\ blocks' = IF r.panic THEN <<>> ELSE r.blocks
                /\ directory' = IF r.panic THEN <<>> ELSE r.directory
                /\ high_mark' = high_mark
                /\ pc' = IF r.panic THEN "closed" ELSE "editing"
                /\ rng' = IF r.panic THEN rng ELSE rng + 1
                /\ ret' = [Ret("create_file", IF r.panic THEN "panic" ELSE "Ok", p, d)
                              EXCEPT !.before = directory]
    /\ UNCHANGED <<facade, archive_key, base>>

\* MemoryEditor::finish(archive_key); the caller keeps the blocks it returns
Finish ==
    /\ facade = "memory"
    /\ pc = "editing"
    /\ file' = MemoryEditor_finish(blocks, directory, archive_key, rng)
    /\ base' = [base EXCEPT !.orig = file']
    /\ rng' = rng + 2
    /\ pc' = "closed"
    /\ blocks' = <<>>
    /\ directory' = <<>>
    /\ ret' = Ret("finish", "Ok", <<>>, <<>>)
    /\ UNCHANGED <<facade, archive_key, synced, high_mark>>

\* a finish that goes from the directory write straight to the header write
finish_pc_unsynced(p, ok) ==
    IF ~ok THEN "closed"
    ELSE IF p = "editing" THEN "synced"
    ELSE "closed"

\* FileEditor::finish: where the caller is after the step at p returned ok or an error (the ?s)
finish_pc(p, ok) ==
    IF ~ok THEN "closed"
    ELSE IF p = "editing" THEN "dir_written"
    ELSE IF p = "dir_written" THEN "synced"
    ELSE "closed"

\* an editor that is dropped, or consumed by finish
EditorGone ==
    /\ blocks' = <<>>
    /\ directory' = <<>>
    /\ high_mark' = 0

\* FileEditor::finish up to the write of the directory: both encryptions, seek and write_all,
\* which either succeeds or fails having written none or half of the blocks
FinishWriteDir(ok, half) ==
    /\ facade = "file"
    /\ pc = "editing"
    /\ \E e \in {finish_encrypt(high_mark, directory, archive_key, rng).dir_blocks} :
           /\ file' = write_at(file, high_mark,
                               IF ok THEN e ELSE IF half THEN SubSeq(e, 1, Len(e) \div 2) ELSE <<>>)
           /\ synced' = (synced /\ file' = file)
    /\ pc' = finish_pc(pc, ok)
    /\ ret' = Ret("finish", IF ok THEN "pending" ELSE "Io", <<>>, <<>>)
    /\ rng' = IF ok THEN rng ELSE rng + 2
    /\ IF ok THEN UNCHANGED <<blocks, directory, high_mark>> ELSE EditorGone
    /\ UNCHANGED <<facade, archive_key, base>>

\* FileEditor::finish: file.sync_data()?
FinishSync(ok) ==
    /\ facade = "file"
    /\ pc = "dir_written"
    /\ synced' = (ok \/ synced)
    /\ pc' = finish_pc(pc, ok)
    /\ ret' = Ret("finish", IF ok THEN "pending" ELSE "Io", <<>>, <<>>)
    /\ rng' = IF ok THEN rng ELSE rng + 2
    /\ IF ok THEN UNCHANGED <<blocks, directory, high_mark>> ELSE EditorGone
    /\ UNCHANGED <<facade, archive_key, file, base>>

\* FileEditor::finish: seek to the start and write the new header
FinishWriteHeader(ok) ==
    /\ facade = "file"
    /\ pc = "synced"
    /\ file' = IF ok THEN write_at(file, 0, finish_encrypt(high_mark, directory, archive_key, rng).header)
               ELSE file
    /\ synced' = (synced /\ file' = file)
    /\ base' = IF ok THEN [base EXCEPT !.orig = file'] ELSE base
    /\ pc' = finish_pc(pc, ok)
    /\ ret' = Ret("finish", IF ok THEN "Ok" ELSE "Io", <<>>, <<>>)
    /\ rng' = rng + 2
    /\ EditorGone
    /\ UNCHANGED <<facade, archive_key>>

\* the editor is dropped without (the rest of) finish: drop(editor), or the process stops
Drop ==
    /\ InSession
    /\ pc' = "closed"
    /\ ret' = Ret("drop", "Ok", <<>>, <<>>)
    /\ rng' = IF pc = "editing" THEN rng ELSE rng + 2
    /\ EditorGone
    /\ UNCHANGED <<facade, archive_key, file, synced, base>>

\* FileReader::open(path, k), or MemoryReader::from_bytes(the first n bytes of the archive, k)
OpenReader(k, n) ==
    /\ pc = "closed"
    /\ IF facade = "file"
       THEN \E r \in {read_header(file, k)} :
                /\ pc' = IF r.kind = "Ok" THEN "reading" ELSE "closed"
                /\ directory' = r.directory
                /\ high_mark' = IF r.kind = "Ok" THEN r.info.directory.offset ELSE 0
                /\ blocks' = <<>>
                /\ ret' = [Ret("FileReader::open", r.kind, <<>>, <<>>) EXCEPT !.k = k]
       ELSE \E r \in {MemoryReader_from_bytes(SubSeq(BlocksAsBytes(file), 1, n), k)} :
                /\ pc' = IF r.kind = "Ok" THEN "reading" ELSE "closed"
                /\ directory' = r.directory
                /\ high_mark' = 0
                /\ blocks' = r.blocks
                /\ ret' = [Ret("MemoryReader::from_bytes", r.kind, <<>>, <<n>>) EXCEPT !.k = k]
    /\ UNCHANGED <<facade, archive_key, file, synced, rng, base>>

\* read_data(desc, archive_key) of the open reader or editor on a descriptor of its directory
read_data(desc) ==
    IF facade = "file" THEN file_read_data(file, desc, archive_key) ELSE mem_read_data(blocks, desc, archive_key)

\* find_file(p) and read_data of what it found, on the open reader or editor
ReadData(p) ==
    /\ pc \in {"reading", "editing"}
    /\ \E f \in {find_file(directory, p)} :
       \E r \in {IF f.some THEN read_data(directory[f.val + 1]) ELSE [kind |-> "NotFound", val |-> <<>>]} :
           ret' = Ret("read_data", r.kind, p, r.val)
    /\ UNCHANGED <<facade, archive_key, pc, file, synced, blocks, directory, high_mark, rng, base>>

AllBytes == Len(file) * BLOCK_SIZE

\* callers that create an empty archive and then edit, finish, drop, reopen and read it
Next ==
    \/ /\ Count(hist, "open") < MaxSessions
       /\ OpenEditor(archive_key, AllBytes)
       /\ Log(Event("open", <<>>, <<>>))
    \/ \E p \in Paths, d \in Datas :
        /\ Count(hist, "create_file") < MaxOps
        /\ CreateFile(p, d)
        /\ Log(Event("create_file", p, d))
    \/ Finish /\ Log(Event("finish", <<>>, <<>>))
    \/ \E ok, half \in BOOLEAN :
        /\ FinishWriteDir(ok, half)
        /\ IF ok THEN UNCHANGED hist ELSE Log(Event("failed", <<>>, <<>>))
    \/ \E ok \in BOOLEAN :
        /\ FinishSync(ok)
        /\ IF ok THEN UNCHANGED hist ELSE Log(Event("failed", <<>>, <<>>))
    \/ \E ok \in BOOLEAN :
        /\ FinishWriteHeader(ok)
        /\ Log(Event(IF ok THEN "finish" ELSE "failed", <<>>, <<>>))
    \/ Drop /\ Log(Event("drop", <<>>, <<>>))
    \/ OpenReader(archive_key, AllBytes) /\ UNCHANGED hist
    \/ \E p \in Paths : pc = "reading" /\ ReadData(p) /\ UNCHANGED hist

Spec == Init /\ [][Next]_vars

-----------------------------------------------------------------------------
(* One editing session on a new archive: MemoryEditor::new or FileEditor::create_new *)

PathB == <<98>>                 \* "b"
PathBX == <<98, 47, 120>>       \* "b/x"
PathDX == <<100, 47, 120>>      \* "d/x"
EditPaths == {PathB, PathBX, PathDA, PathDX}

InitEdit ==
    \E fac \in {"memory", "file"} :
        /\ facade = fac
        /\ archive_key = K1
        /\ pc = "editing"
        /\ file = IF fac = "file" THEN create_empty(K1, 0) ELSE <<>>
        /\ synced = TRUE
        /\ blocks = IF fac = "file" THEN <<>> ELSE MemoryEditor_new.blocks
        /\ directory = <<>>
        /\ high_mark = IF fac = "file" THEN HeaderBLOCKS_LEN ELSE 0
        /\ ret = Idle
        /\ base = [file |-> file, info |-> HeaderTemplate(0, 0).info, directory |-> <<>>, orig |-> file]
        /\ hist = <<>>
        /\ rng = 2

\* Directory::remove(p) through the open editor
Remove(p) ==
    /\ pc = "editing"
    /\ \E r \in {remove(directory, p)} :
        /\ directory' = r.dir
        /\ ret' = [Ret("remove", IF r.removed.some THEN "Some" ELSE "None", p, <<>>)
                      EXCEPT !.before = directory]
    /\ UNCHANGED <<facade, archive_key, pc, file, synced, blocks, high_mark, rng, base>>

\* reencrypt_data(old_key, key) through the edit-file handle that has just written a file:
\* edit_file(p).set_content(..).allocate_data().write_data(..) and then reencrypt_data on it;
\* val keeps what was stored before and the index of the handle's descriptor
Reencrypt(old_key, key) ==
    /\ pc = "editing"
    /\ ret.op = "create_file"
    /\ ret.kind = "Ok"
    /\ \E i \in {create(ret.before, ret.path).i + 1} :
       \E r \in {IF facade = "file"
                 THEN file_reencrypt_data(file, directory[i], old_key, key, rng)
                 ELSE mem_reencrypt_data(blocks, directory[i], old_key, key, rng)} :
        /\ file' = IF facade = "file" THEN r.file ELSE file
        /\ synced' = (synced /\ file' = file)
        /\ blocks' = IF facade = "file" THEN blocks ELSE r.blocks
        /\ directory' = [directory EXCEPT ![i] = r.desc]
        /\ pc' = IF r.kind = "panic" THEN "closed" ELSE "editing"
        /\ rng' = IF r.kind = "Ok" THEN rng + 1 ELSE rng
        /\ ret' = [Ret("reencrypt_data", r.kind, ret.path,
                       [stored |-> IF facade = "file" THEN file ELSE blocks, i |-> i])
                      EXCEPT !.before = directory, !.k = old_key]
    /\ UNCHANGED <<facade, archive_key, high_mark, base>>

NextEdit ==
    \/ \E p \in EditPaths, d \in Datas :
        /\ Len(hist) < MaxEdits
        /\ CreateFile(p, d)
        /\ Log(Event("create_file", p, d))
    \/ \E p \in EditPaths :
        /\ Len(hist) < MaxEdits
        /\ Remove(p)
        /\ Log(Event("remove", p, <<>>))
    \/ \E old_key \in Keys :
        /\ Len(hist) < MaxEdits
        /\ Reencrypt(old_key, K2)
        /\ Log(Event("reencrypt_data", old_key, <<>>))

SpecEdit == InitEdit /\ [][NextEdit]_vars

-----------------------------------------------------------------------------
(* A Directory on its own: Directory::new, then the methods of dir.rs and directory.rs *)

MaxDirOps == 3

PathD == <<100>>                \* "d"
PathDbA == <<100, 92, 97>>      \* "d\a"
PathXSlash == <<120, 47>>       \* "x/"
DirPaths == {PathB, PathD, PathDA, PathDbA, PathDX, PathXSlash}

\* descriptors a caller holds: Descriptor::new("s", 1, 5) and Descriptor::new("u", 2, 3), each given
\* a section, and Descriptor::dir("t", 0)
FileSample ==
    [DescriptorNew(<<115>>, 1, 5) EXCEPT
        !.section = [offset |-> HeaderBLOCKS_LEN, size |-> 2, nonce |-> <<1, 2>>, mac |-> <<3, 4>>]]
FileSample2 ==
    [DescriptorNew(<<117>>, 2, 3) EXCEPT
        !.section = [offset |-> HeaderBLOCKS_LEN + 2, size |-> 1, nonce |-> <<5, 6>>, mac |-> <<7, 8>>]]
DirSample == DescriptorDir(<<116>>, 0)
LinkSources == {FileSample, FileSample2, DirSample}

InitDir ==
    /\ facade = "directory"
    /\ archive_key = K1
    /\ pc = "editing"
    /\ file = <<>>
    /\ synced = TRUE
    /\ blocks = <<>>
    /\ directory = <<>>
    /\ high_mark = 0
    /\ ret = Idle
    /\ base = [file |-> <<>>, info |-> HeaderTemplate(0, 0).info, directory |-> <<>>, orig |-> <<>>]
    /\ hist = <<>>
    /\ rng = 0

\* the outcome of a Directory method: a panic unwinds and the Directory is dropped
DirOutcome(r, result) ==
    /\ pc = "editing"
    /\ directory' = IF r.panic THEN <<>> ELSE r.dir
    /\ pc' = IF r.panic THEN "closed" ELSE "editing"
    /\ ret' = [result EXCEPT !.kind = IF r.panic THEN "panic" ELSE @, !.before = directory]
    /\ UNCHANGED <<facade, archive_key, file, synced, blocks, high_mark, rng, base>>

\* dir::create(p): val is the index of the descriptor returned
Create(p) ==
    \E c \in {create(directory, p)} : DirOutcome(c, Ret("create", "Ok", p, <<c.i>>))

\* Directory::create_dir(p)
CreateDir(p) ==
    \E r \in {create_dir(directory, p)} : DirOutcome(r, Ret("create_dir", "Ok", p, <<>>))

\* Directory::create_link(p, src)
CreateLink(p, src) ==
    \E r \in {create_link(directory, p, src)} : DirOutcome(r, Ret("create_link", "Ok", p, <<src>>))

\* Directory::move_file(s, d)
MoveFile(s, d) ==
    \E r \in {move_file(directory, s, d)} :
        DirOutcome(r, Ret("move_file", IF r.moved THEN "true" ELSE "false", s, d))

NextDir ==
    \/ \E p \in DirPaths :
        /\ Len(hist) < MaxDirOps
        /\ Create(p)
        /\ Log(Event("create", p, <<>>))
    \/ \E p \in DirPaths :
        /\ Len(hist) < MaxDirOps
        /\ CreateDir(p)
        /\ Log(Event("create_dir", <<>>, <<>>))
    \/ \E p \in DirPaths, src \in LinkSources :
        /\ Len(hist) < MaxDirOps
        /\ CreateLink(p, src)
        /\ Log(Event("create_link", <<>>, <<>>))
    \/ \E p \in DirPaths :
        /\ Len(hist) < MaxDirOps
        /\ Remove(p)
        /\ Log(Event("remove", <<>>, <<>>))
    \/ \E s \in DirPaths, d \in DirPaths :
        /\ Len(hist) < MaxDirOps
        /\ MoveFile(s, d)
        /\ Log(Event("move_file", <<>>, <<>>))

SpecDir == InitDir /\ [][NextDir]_vars

-----------------------------------------------------------------------------
(* A MemoryEditor from MemoryEditor::new: files, links to descriptors the caller holds, gc *)

MaxMemOps == 4

MemPaths == {PathB, PathDA}

InitMem ==
    /\ facade = "memory"
    /\ archive_key = K1
    /\ pc = "editing"
    /\ file = <<>>
    /\ synced = TRUE
    /\ blocks = MemoryEditor_new.blocks
    /\ directory = MemoryEditor_new.directory
    /\ high_mark = 0
    /\ ret = Idle
    /\ base = [file |-> <<>>, info |-> HeaderTemplate(0, 0).info, directory |-> <<>>, orig |-> <<>>]
    /\ hist = <<>>
    /\ rng = 2

\* the descriptors a caller can hold: copies of those in the directory now or before the last call
Held == {directory[j] : j \in 1..Len(directory)} \cup {ret.before[j] : j \in 1..Len(ret.before)}

\* MemoryEditor::gc; val is the blocks before
Gc ==
    /\ facade = "memory"
    /\ pc = "editing"
    /\ \E r \in {gc(blocks, directory)} :
        /\ blocks' = r.blocks
        /\ directory' = r.directory
    /\ ret' = [Ret("gc", "Ok", <<>>, blocks) EXCEPT !.before = directory]
    /\ UNCHANGED <<facade, archive_key, pc, file, synced, high_mark, rng, base>>

NextMem ==
    \/ \E p \in MemPaths, d \in Datas :
        /\ Len(hist) < MaxMemOps
        /\ CreateFile(p, d)
        /\ Log(Event("create_file", <<>>, <<>>))
    \/ \E p \in MemPaths :
        /\ Len(hist) < MaxMemOps
        /\ Remove(p)
        /\ Log(Event("remove", <<>>, <<>>))
    \/ \E src \in Held :
        /\ Len(hist) < MaxMemOps
        /\ CreateLink(PathDX, src)
        /\ Log(Event("create_link", <<>>, <<>>))
    \/  /\ Len(hist) < MaxMemOps
        /\ Gc
        /\ Log(Event("gc", <<>>, <<>>))

SpecMem == InitMem /\ [][NextMem]_vars

-----------------------------------------------------------------------------
(* fsck on any Directory: Directory::from(descriptors), then fsck(high_mark, log) *)

MaxFsckLen == 3

\* a file whose section is larger than either high mark, Descriptor::file("h"), a file whose name
\* buffer holds an invalid length, and two directories
BigFile == [FileSample EXCEPT !.section.size = HeaderBLOCKS_LEN + 4]
HeaderFile == DescriptorNew(<<104>>, 1, 0)
BadName == [FileSample EXCEPT !.name[NAME_BUF_LEN] = NAME_BUF_LEN]
FsckDescs == {FileSample, BigFile, HeaderFile, BadName, DescriptorDir(<<100>>, 1), DescriptorDir(<<101>>, 3)}
FsckMarks == {HeaderBLOCKS_LEN, HeaderBLOCKS_LEN + 2}

InitFsck ==
    /\ facade = "directory"
    /\ archive_key = K1
    /\ pc = "editing"
    /\ file = <<>>
    /\ synced = TRUE
    /\ blocks = <<>>
    /\ directory \in UNION {[1..n -> FsckDescs] : n \in 0..MaxFsckLen}
    /\ high_mark \in FsckMarks
    /\ ret = Idle
    /\ base = [file |-> <<>>, info |-> HeaderTemplate(0, 0).info, directory |-> <<>>, orig |-> <<>>]
    /\ hist = <<>>
    /\ rng = 0

\* Directory::fsck(high_mark, log) in a build with or without overflow checks;
\* val is the number of error lines logged and whether the subtraction overflowed
Fsck(checked) ==
    /\ pc = "editing"
    /\ \E r \in {fsck(directory, high_mark, checked)} :
           ret' = [Ret("fsck", IF r.panic THEN "panic" ELSE IF r.success THEN "true" ELSE "false",
                       <<>>, <<r.errors, r.overflow>>) EXCEPT !.before = directory]
    /\ pc' = "closed"
    /\ UNCHANGED <<facade, archive_key, file, synced, blocks, directory, high_mark, rng, base>>

NextFsck == \E checked \in BOOLEAN : Fsck(checked) /\ Log(Event("fsck", <<>>, <<>>))

SpecFsck == InitFsck /\ [][NextFsck]_vars

-----------------------------------------------------------------------------
(* A finished archive whose stored bytes somebody else alters between the opens *)

SampleData == <<1, 2, 3, 4, 5>>

\* create_empty, open, create_file("a", SampleData), finish; the same through MemoryEditor
SampleArchive(fac, k) ==
    IF fac = "file"
    THEN Let(open(create_empty(k, 0), k), LAMBDA o :
         Let(FileEditor_create_file(create_empty(k, 0), o.directory, o.high_mark, PathA, SampleData, k, 2),
             LAMBDA c :
         Let(finish_encrypt(c.high_mark, c.directory, k, 3), LAMBDA e :
             write_at(write_at(c.file, c.high_mark, e.dir_blocks), 0, e.header))))
    ELSE Let(MemoryEditor_create_file(MemoryEditor_new.blocks, MemoryEditor_new.directory,
                                      PathA, SampleData, k, 2), LAMBDA c :
             MemoryEditor_finish(c.blocks, c.directory, k, 3))

\* the same archive as a writer with another version magic stores it: the header authenticates
ForeignArchive(fac, k) ==
    Let(SampleArchive(fac, k), LAMBDA f :
    Let(decrypt_header(SubSeq(f, 1, HeaderBLOCKS_LEN), k).info, LAMBDA info :
    Let(encrypt_section(InfoBlocks([info EXCEPT !.version = FOREIGN_VERSION]),
                        HeaderSECTION, k, random(5)), LAMBDA h :
        write_at(f, 0, <<h.section.nonce, h.section.mac>> \o h.blocks))))

InitTamper ==
    \E fac \in {"memory", "file"}, foreign \in BOOLEAN :
        /\ AtRest(fac, K1, IF foreign THEN ForeignArchive(fac, K1) ELSE SampleArchive(fac, K1))
        /\ rng = 6

\* the (word of the block, bit of the word) pairs that get inverted
Flips == {<<1, 0>>, <<2, WordBits - 1>>}

\* one bit of one stored word is inverted
FlipBit(i, w, b) ==
    /\ pc = "closed"
    /\ file = base.orig
    /\ file' = [file EXCEPT ![i][w] = XorW(@, 2 ^ b)]
    /\ ret' = Idle
    /\ UNCHANGED <<facade, archive_key, pc, synced, blocks, directory, high_mark, rng, base, hist>>

\* the inverted bit is put back
Restore ==
    /\ pc = "closed"
    /\ file # base.orig
    /\ file' = base.orig
    /\ ret' = Idle
    /\ UNCHANGED <<facade, archive_key, pc, synced, blocks, directory, high_mark, rng, base, hist>>

\* the reader or editor is dropped
Close ==
    /\ pc \in {"reading", "editing"}
    /\ pc' = "closed"
    /\ ret' = Idle
    /\ base' = [base EXCEPT !.file = base.orig, !.info = HeaderTemplate(0, 0).info, !.directory = <<>>]
    /\ EditorGone
    /\ UNCHANGED <<facade, archive_key, file, synced, rng, hist>>

\* byte lengths handed to from_bytes: everything, a byte or a block less, less than a header
Lens == {AllBytes, AllBytes - 1, AllBytes - BLOCK_SIZE, (HeaderBLOCKS_LEN - 1) * BLOCK_SIZE}

NextTamper ==
    \/ \E i \in 1..Len(file), wb \in Flips : FlipBit(i, wb[1], wb[2])
    \/ Restore
    \/ \E k \in Keys, n \in Lens : (facade = "file" => n = AllBytes) /\ OpenEditor(k, n) /\ UNCHANGED hist
    \/ \E k \in Keys, n \in Lens : (facade = "file" => n = AllBytes) /\ OpenReader(k, n) /\ UNCHANGED hist
    \/ \E p \in {PathA, PathDA} : ReadData(p) /\ UNCHANGED hist
    \/ Close

SpecTamper == InitTamper /\ [][NextTamper]_vars

-----------------------------------------------------------------------------
(* A reader on a finished archive, given descriptors and sections of the caller's making *)

MaxReads == 2

\* usize: a word of the machine
UsizeMod == WordMod

\* create_empty, open, create_file("d/a", SampleData), finish; the same through MemoryEditor
ReadSample(fac, k) ==
    IF fac = "file"
    THEN Let(open(create_empty(k, 0), k), LAMBDA o :
         Let(FileEditor_create_file(create_empty(k, 0), o.directory, o.high_mark, PathDA, SampleData, k, 2),
             LAMBDA c :
         Let(finish_encrypt(c.high_mark, c.directory, k, 3), LAMBDA e :
             write_at(write_at(c.file, c.high_mark, e.dir_blocks), 0, e.header))))
    ELSE Let(MemoryEditor_create_file(MemoryEditor_new.blocks, MemoryEditor_new.directory,
                                      PathDA, SampleData, k, 2), LAMBDA c :
             MemoryEditor_finish(c.blocks, c.directory, k, 3))

\* FileReader::open / MemoryReader::from_bytes has returned a reader on the sample archive
InitRead ==
    \E fac \in {"memory", "file"} :
        /\ facade = fac
        /\ archive_key = K1
        /\ pc = "reading"
        /\ file = ReadSample(fac, K1)
        /\ synced = TRUE
        /\ blocks = IF fac = "file" THEN <<>> ELSE file
        /\ directory = read_header(file, K1).directory
        /\ high_mark = 0
        /\ ret = Idle
        /\ base = [file |-> file, info |-> HeaderTemplate(0, 0).info, directory |-> directory, orig |-> file]
        /\ hist = <<>>
        /\ rng = 6

\* the sections a caller passes: a stored one, the same moved to straddle or to lie past the end
\* of the archive, with an offset + size that wraps the u32, or empty past the end
SectionsOf(s) ==
    {s,
     [s EXCEPT !.offset = Len(file) - 1],
     [s EXCEPT !.offset = Len(file) + 1],
     [s EXCEPT !.offset = U32Mod - 1],
     [s EXCEPT !.offset = Len(file) + 1, !.size = 0]}

\* the descriptors a caller passes: those of the directory and copies with another content_size
\* or another section
DescsOf(desc) ==
    {[desc EXCEPT !.content_size = n] : n \in {desc.content_size, 3, BLOCK_SIZE * desc.section.size, U32Mod - 1}}
        \cup {[desc EXCEPT !.section = s] : s \in SectionsOf(desc.section)}

\* the tail of read_into in all four readers: the result and dest afterwards; checked is a
\* build with overflow checks, where byte_offset + dest.len() aborts when it exceeds usize
read_into_copy(bs, byte_offset, dest, checked) ==
    Let(BlocksAsBytes(bs), LAMBDA data :
        IF checked /\ byte_offset + Len(dest) >= UsizeMod THEN [kind |-> "panic", dest |-> dest]
        ELSE Let((byte_offset + Len(dest)) % UsizeMod, LAMBDA end :
                 IF byte_offset <= end /\ end <= Len(data)
                 THEN [kind |-> "Ok", dest |-> SubSeq(data, byte_offset + 1, end)]
                 ELSE [kind |-> "InvalidInput", dest |-> dest]))

\* read_section(section, k) of the open reader
read_section(section, k) ==
    IF facade = "file" THEN file_read_section(file, section, k) ELSE mem_read_section(blocks, section, k)

\* MemoryReader::read_into / FileReader::read_into
read_into(desc, k, byte_offset, dest, checked) ==
    IF ~is_file(desc) THEN [kind |-> "InvalidInput", dest |-> dest]
    ELSE Let(read_section(desc.section, k), LAMBDA r :
             IF r.kind # "Ok" THEN [kind |-> r.kind, dest |-> dest]
             ELSE read_into_copy(r.blocks, byte_offset, dest, checked))

\* read_section(section, k); before holds the arguments of the call, val what it returned
ReadSection(section, k) ==
    /\ pc = "reading"
    /\ \E r \in {read_section(section, k)} :
           ret' = [Ret("read_section", r.kind, <<>>, r.blocks) EXCEPT !.before = <<section>>, !.k = k]
    /\ UNCHANGED <<facade, archive_key, pc, file, synced, blocks, directory, high_mark, rng, base>>

\* read_data(desc, k)
ReadDesc(desc, k) ==
    /\ pc = "reading"
    /\ \E r \in {IF facade = "file" THEN file_read_data(file, desc, k) ELSE mem_read_data(blocks, desc, k)} :
           ret' = [Ret("read_data", r.kind, <<>>, r.val) EXCEPT !.before = <<desc>>, !.k = k]
    /\ UNCHANGED <<facade, archive_key, pc, file, synced, blocks, directory, high_mark, rng, base>>

\* what dest holds before read_into is called
DestFill(n) == [i \in 1..n |-> ByteMod - 1]

\* read_into(desc, k, byte_offset, dest) with a dest of n bytes; a panic ends the process
ReadInto(desc, k, byte_offset, n, checked) ==
    /\ pc = "reading"
    /\ \E r \in {read_into(desc, k, byte_offset, DestFill(n), checked)} :
        /\ ret' = [Ret("read_into", r.kind, <<>>, r.dest)
                      EXCEPT !.before = <<desc, byte_offset, n>>, !.k = k]
        /\ pc' = IF r.kind = "panic" THEN "closed" ELSE pc
    /\ UNCHANGED <<facade, archive_key, file, synced, blocks, directory, high_mark, rng, base>>

\* the byte offsets and dest lengths of read_into: inside the section, across its end, past it,
\* and an offset whose sum with the length exceeds usize
ByteOffsets == {0, 3, 2 * BLOCK_SIZE, UsizeMod - 1}
DestLens == {0, 2, (2 * BLOCK_SIZE) - 2}

\* a caller that makes MaxReads calls on the reader
NextRead ==
    \/ \E j \in 1..Len(directory), k \in Keys : \E s \in SectionsOf(directory[j].section) :
        /\ Len(hist) < MaxReads
        /\ ReadSection(s, k)
        /\ Log(Event("read_section", <<>>, <<>>))
    \/ \E j \in 1..Len(directory), k \in Keys : \E desc \in DescsOf(directory[j]) :
        /\ Len(hist) < MaxReads
        /\ ReadDesc(desc, k)
        /\ Log(Event("read_data", <<>>, <<>>))
    \/ \E j \in 1..Len(directory), byte_offset \in ByteOffsets, n \in DestLens, checked \in BOOLEAN :
       \E s \in SectionsOf(directory[j].section) :
        /\ Len(hist) < MaxReads
        /\ ReadInto([directory[j] EXCEPT !.section = s], K1, byte_offset, n, checked)
        /\ Log(Event("read_into", <<>>, <<>>))

SpecRead == InitRead /\ [][NextRead]_vars

-----------------------------------------------------------------------------
(* crypt.rs on its own: a caller seals a block array, the ciphertext, the mac or *)
(* the nonce may get one bit inverted, and the caller opens it again             *)

MaxBlocks == 2

\* the blocks of test_roundtrip
TestBlocks == {<<1, 2>>, <<3, 4>>, <<5, WordMod - 1>>}

\* the block arrays of up to n blocks
BlockArrays(n) == UNION {[1..m -> TestBlocks] : m \in 0..n}

\* the caller holds a block array, a key and a section that names the array or something else
InitCrypt ==
    \E B \in BlockArrays(MaxBlocks), k \in Keys, n \in {0, 1}, named \in BOOLEAN :
        /\ facade = "crypt"
        /\ archive_key = k
        /\ pc = "plain"
        /\ file = <<>>
        /\ synced = TRUE
        /\ blocks = B
        /\ directory = <<[DescriptorNew(<<>>, 1, 0) EXCEPT
                            !.section = IF named THEN [SectionDefault EXCEPT !.size = Len(B)]
                                        ELSE [SectionDefault EXCEPT !.offset = 7, !.nonce = <<1, 1>>]]>>
        /\ high_mark = 0
        /\ ret = Idle
        /\ base = [plain |-> B, cipher |-> <<>>, section |-> directory[1].section]
        /\ hist = <<>>
        /\ rng = n

\* encrypt_section(blocks, section, archive_key)
Encrypt ==
    /\ pc = "plain"
    /\ \E r \in {encrypt_section(blocks, directory[1].section, archive_key, random(rng))} :
        /\ blocks' = r.blocks
        /\ directory' = [directory EXCEPT ![1].section = r.section]
        /\ base' = [base EXCEPT !.cipher = r.blocks, !.section = r.section]
    /\ pc' = "sealed"
    /\ rng' = rng + 1
    /\ ret' = Ret("encrypt_section", "Ok", <<>>, <<>>)
    /\ UNCHANGED <<facade, archive_key, file, synced, high_mark, hist>>

\* bit b of word w of ciphertext block i, of the mac or of the nonce is inverted
Flip(target, i, w, b) ==
    /\ pc = "sealed"
    /\ hist = <<>>
    /\ blocks' = IF target = "ciphertext" THEN [blocks EXCEPT ![i][w] = XorW(@, 2 ^ b)] ELSE blocks
    /\ directory' = IF target = "mac" THEN [directory EXCEPT ![1].section.mac[w] = XorW(@, 2 ^ b)]
                    ELSE IF target = "nonce" THEN [directory EXCEPT ![1].section.nonce[w] = XorW(@, 2 ^ b)]
                    ELSE directory
    /\ hist' = <<Event("flip", <<>>, <<target, i, w, b>>)>>
    /\ ret' = Idle
    /\ UNCHANGED <<facade, archive_key, pc, file, synced, high_mark, rng, base>>

\* decrypt_section(blocks, section, k)
Decrypt(k) ==
    /\ pc = "sealed"
    /\ \E r \in {decrypt_section(blocks, directory[1].section, k)} :
        /\ blocks' = r.blocks
        /\ ret' = [Ret("decrypt_section", IF r.ok THEN "true" ELSE "false", <<>>, <<>>) EXCEPT !.k = k]
    /\ pc' = "opened"
    /\ UNCHANGED <<facade, archive_key, file, synced, directory, high_mark, rng, base, hist>>

NextCrypt ==
    \/ Encrypt
    \/ \E i \in 1..Len(blocks), w \in 1..2, b \in 0..(WordBits - 1) : Flip("ciphertext", i, w, b)
    \/ \E target \in {"mac", "nonce"}, w \in 1..2, b \in 0..(WordBits - 1) : Flip(target, 1, w, b)
    \/ \E k \in Keys : Decrypt(k)

SpecCrypt == InitCrypt /\ [][NextCrypt]_vars

-----------------------------------------------------------------------------
(* cipher.rs at the width of the library: SPECK128/128 with 32 rounds.  A u64 *)
(* is the sequence of its four 16-bit limbs, the least significant first.    *)

CipherROUNDS == 32
\* a limb has two bytes
LimbBits == 8 + 8
LimbMod == 2^LimbBits

\* the u64 of a number below LimbMod
U64(n) == <<n, 0, 0, 0>>

\* the u64 written as eight bytes, the most significant first
U64Bytes(b) == <<(b[7] * ByteMod) + b[8], (b[5] * ByteMod) + b[6],
                 (b[3] * ByteMod) + b[4], (b[1] * ByteMod) + b[2]>>

xor_u64(a, b) == <<XorW(a[1], b[1]), XorW(a[2], b[2]), XorW(a[3], b[3]), XorW(a[4], b[4])>>

\* u64::rotate_left: whole limbs first, then the remaining bits
rotate_left_u64(a, r) ==
    Let(r \div LimbBits, LAMBDA q :
    Let(r % LimbBits, LAMBDA s :
    Let(SubSeq([j \in 1..4 |-> a[((j + 3 - q) % 4) + 1]], 1, 4), LAMBDA l :
        SubSeq([j \in 1..4 |-> ((l[j] * 2^s) % LimbMod) + (l[((j + 2) % 4) + 1] \div 2^(LimbBits - s))],
               1, 4))))

rotate_right_u64(a, r) == rotate_left_u64(a, (4 * LimbBits) - r)

\* the limbs from j on of a + b + c, the carry beyond the last limb dropped
RECURSIVE add_limbs(_, _, _, _)
add_limbs(a, b, j, c) ==
    IF j > 4 THEN <<>>
    ELSE Let(a[j] + b[j] + c, LAMBDA s : <<s % LimbMod>> \o add_limbs(a, b, j + 1, s \div LimbMod))

wrapping_add_u64(a, b) == add_limbs(a, b, 1, 0)
wrapping_sub_u64(a, b) ==
    add_limbs(a, <<LimbMod - 1 - b[1], LimbMod - 1 - b[2], LimbMod - 1 - b[3], LimbMod - 1 - b[4]>>, 1, 1)

\* a round with the rotation amounts of the 64-bit block variant of the cipher
R_u64_small(x, y, k) ==
    Let(xor_u64(wrapping_add_u64(rotate_right_u64(x, 7), y), k), LAMBDA x1 :
        <<x1, xor_u64(rotate_left_u64(y, 2), x1)>>)

\* macro R!(x, y, k) on u64: returns the new <<x, y>>
R_u64(x, y, k) ==
    Let(xor_u64(wrapping_add_u64(rotate_right_u64(x, 8), y), k), LAMBDA x1 :
        <<x1, xor_u64(rotate_left_u64(y, 3), x1)>>)

\* macro IR!(x, y, k) on u64: returns the new <<x, y>>
IR_u64(x, y, k) ==
    Let(rotate_right_u64(xor_u64(y, x), 3), LAMBDA y1 :
        <<rotate_left_u64(wrapping_sub_u64(xor_u64(x, k), y1), 8), y1>>)

\* The three loops run their rounds lo .. hi - 1 as the rounds of the first half followed by
\* those of the second, which keeps the evaluation shallow.

\* expand, the while loop: st is <<b, a>> and the round keys stored so far
RECURSIVE expand_u64_from(_, _, _)
expand_u64_from(st, lo, hi) ==
    IF hi = lo + 1
    THEN [ba |-> R_u64(st.ba[1], st.ba[2], U64(lo)), rk |-> Append(st.rk, st.ba[2])]
    ELSE Let(expand_u64_from(st, lo, (lo + hi) \div 2), LAMBDA h :
             expand_u64_from(h, (lo + hi) \div 2, hi))

\* cipher::expand
expand_u64(key) == expand_u64_from([ba |-> key, rk |-> <<>>], 0, CipherROUNDS).rk

\* encrypt, the while loop
RECURSIVE encrypt_u64_from(_, _, _, _)
encrypt_u64_from(yx, rk, lo, hi) ==
    IF hi = lo + 1 THEN R_u64(yx[1], yx[2], rk[lo + 1])
    ELSE Let(encrypt_u64_from(yx, rk, lo, (lo + hi) \div 2), LAMBDA h :
             encrypt_u64_from(h, rk, (lo + hi) \div 2, hi))

\* cipher::encrypt
encrypt_u64(pt, rk) == encrypt_u64_from(pt, rk, 0, CipherROUNDS)

\* decrypt, the while loop: the rounds hi - 1 down to lo
RECURSIVE decrypt_u64_from(_, _, _, _)
decrypt_u64_from(yx, rk, lo, hi) ==
    IF hi = lo + 1 THEN IR_u64(yx[1], yx[2], rk[lo + 1])
    ELSE Let(decrypt_u64_from(yx, rk, (lo + hi) \div 2, hi), LAMBDA h :
             decrypt_u64_from(h, rk, lo, (lo + hi) \div 2))

\* cipher::decrypt
decrypt_u64(ct, rk) == decrypt_u64_from(ct, rk, 0, CipherROUNDS)

\* test_vectors: the key, the plaintext and the ciphertext
VectorKey == <<U64Bytes(<<15, 14, 13, 12, 11, 10, 9, 8>>), U64Bytes(<<7, 6, 5, 4, 3, 2, 1, 0>>)>>
VectorPlaintext ==
    <<U64Bytes(<<108, 97, 118, 105, 117, 113, 101, 32>>), U64Bytes(<<116, 105, 32, 101, 100, 97, 109, 32>>)>>
VectorCiphertext ==
    <<U64Bytes(<<166, 93, 152, 81, 121, 120, 50, 101>>), U64Bytes(<<120, 96, 254, 223, 92, 87, 13, 24>>)>>

MaxCipherOps == 2

AllOnes == <<LimbMod - 1, LimbMod - 1, LimbMod - 1, LimbMod - 1>>
CipherKeys == {VectorKey, <<U64(0), U64(0)>>, <<U64(13), U64(42)>>}
CipherBlocks ==
    {VectorPlaintext, VectorCiphertext, <<U64(0), U64(0)>>, <<AllOnes, AllOnes>>,
     <<U64(1), U64(2)>>, <<U64(5), AllOnes>>}

\* a caller holds a key and a block
InitCipher ==
    \E key \in CipherKeys, b \in CipherBlocks :
        /\ facade = "cipher"
        /\ archive_key = key
        /\ pc = "plain"
        /\ file = <<>>
        /\ synced = TRUE
        /\ blocks = <<b>>
        /\ directory = <<>>
        /\ high_mark = 0
        /\ ret = Idle
        /\ base = [plain |-> b]
        /\ hist = <<>>
        /\ rng = 0

\* block = encrypt(block, &expand(key))
CipherEncrypt ==
    /\ Len(hist) < MaxCipherOps
    /\ blocks' = <<encrypt_u64(blocks[1], expand_u64(archive_key))>>
    /\ ret' = Ret("encrypt", "Ok", <<>>, blocks[1])
    /\ Log(Event("encrypt", <<>>, <<>>))
    /\ UNCHANGED <<facade, archive_key, pc, file, synced, directory, high_mark, rng, base>>

\* block = decrypt(block, &expand(key))
CipherDecrypt ==
    /\ Len(hist) < MaxCipherOps
    /\ blocks' = <<decrypt_u64(blocks[1], expand_u64(archive_key))>>
    /\ ret' = Ret("decrypt", "Ok", <<>>, blocks[1])
    /\ Log(Event("decrypt", <<>>, <<>>))
    /\ UNCHANGED <<facade, archive_key, pc, file, synced, directory, high_mark, rng, base>>

NextCipher == CipherEncrypt \/ CipherDecrypt

SpecCipher == InitCipher /\ [][NextCipher]_vars

-----------------------------------------------------------------------------
(* A MemoryEditor and a FileEditor driven by the same calls.  The FileEditor *)
(* is in file, directory and high_mark; the MemoryEditor is in blocks and    *)
(* base.directory, and base.stored is the Vec<Block> its finish returned.    *)

MaxPairOps == 4

PairPaths == {PathA, PathB}

\* MemoryEditor::new() and FileEditor::create_new(path, K1)
InitPair ==
    /\ facade = "pair"
    /\ archive_key = K1
    /\ pc = "editing"
    /\ file = create_empty(K1, 0)
    /\ synced = TRUE
    /\ blocks = MemoryEditor_new.blocks
    /\ directory = <<>>
    /\ high_mark = HeaderBLOCKS_LEN
    /\ ret = Idle
    /\ base = [directory |-> MemoryEditor_new.directory, stored |-> <<>>]
    /\ hist = <<>>
    /\ rng = 2

\* the same Directory method on both editors: f is the result on the FileEditor's directory,
\* m on the MemoryEditor's; a panic unwinds and drops the editors
PairDir(f, m, op, p) ==
    /\ pc = "editing"
    /\ directory' = f.dir
    /\ base' = [base EXCEPT !.directory = m.dir]
    /\ pc' = IF f.panic \/ m.panic THEN "closed" ELSE "editing"
    /\ ret' = Ret(op, IF f.panic \/ m.panic THEN "panic" ELSE "Ok", p, <<>>)
    /\ UNCHANGED <<facade, archive_key, file, synced, blocks, high_mark, rng>>

\* create_file(p, d, K1) on both
PairCreateFile(p, d) ==
    /\ pc = "editing"
    /\ \E f \in {FileEditor_create_file(file, directory, high_mark, p, d, archive_key, rng)},
          m \in {MemoryEditor_create_file(blocks, base.directory, p, d, archive_key, rng)} :
        /\ file' = f.file
        /\ directory' = f.directory
        /\ high_mark' = f.high_mark
        /\ blocks' = m.blocks
        /\ base' = [base EXCEPT !.directory = m.directory]
        /\ pc' = IF f.panic \/ m.panic THEN "closed" ELSE "editing"
        /\ ret' = Ret("create_file", IF f.panic \/ m.panic THEN "panic" ELSE "Ok", p, d)
    /\ synced' = FALSE
    /\ rng' = rng + 1
    /\ UNCHANGED <<facade, archive_key>>

\* remove(p) on both
PairRemove(p) ==
    \E f \in {remove(directory, p)}, m \in {remove(base.directory, p)} :
        PairDir([dir |-> f.dir, panic |-> FALSE], [dir |-> m.dir, panic |-> FALSE], "remove", p)

\* create_link(p, desc) on both, desc being descriptor j of the editor's own directory
PairCreateLink(p, j) ==
    /\ j <= Len(directory) /\ j <= Len(base.directory)
    /\ \E f \in {create_link(directory, p, directory[j])},
          m \in {create_link(base.directory, p, base.directory[j])} :
           PairDir(f, m, "create_link", p)

\* move_file(s, d) on both
PairMoveFile(s, d) ==
    \E f \in {move_file(directory, s, d)}, m \in {move_file(base.directory, s, d)} :
        PairDir(f, m, "move_file", s)

\* finish(K1) on both, every write and the sync of the FileEditor succeeding
PairFinish ==
    /\ pc = "editing"
    /\ \E e \in {finish_encrypt(high_mark, directory, archive_key, rng)} :
           file' = write_at(write_at(file, high_mark, e.dir_blocks), 0, e.header)
    /\ base' = [base EXCEPT !.directory = <<>>,
                            !.stored = MemoryEditor_finish(blocks, base.directory, archive_key, rng)]
    /\ pc' = "closed"
    /\ synced' = TRUE
    /\ blocks' = <<>>
    /\ directory' = <<>>
    /\ high_mark' = 0
    /\ rng' = rng + 2
    /\ ret' = Ret("finish", "Ok", <<>>, <<>>)
    /\ UNCHANGED <<facade, archive_key>>

\* FileEditor::open(path, K1) and MemoryEditor::from_bytes(stored, K1)
PairReopen ==
    /\ pc = "closed"
    /\ ret.kind = "Ok"
    /\ \E f \in {open(file, archive_key)},
          m \in {MemoryEditor_from_bytes(BlocksAsBytes(base.stored), archive_key)} :
        /\ directory' = f.directory
        /\ high_mark' = f.high_mark
        /\ blocks' = m.blocks
        /\ base' = [base EXCEPT !.directory = m.directory]
        /\ pc' = IF f.kind = "Ok" /\ m.kind = "Ok" THEN "editing" ELSE "closed"
        /\ ret' = Ret("reopen", IF f.kind = "Ok" /\ m.kind = "Ok" THEN "Ok" ELSE "failed", <<>>, <<>>)
    /\ UNCHANGED <<facade, archive_key, file, synced, rng>>

NextPair ==
    \/ \E p \in PairPaths :
        /\ Len(hist) < MaxPairOps
        /\ PairCreateFile(p, SampleData)
        /\ Log(Event("create_file", <<>>, <<>>))
    \/ \E p \in PairPaths :
        /\ Len(hist) < MaxPairOps
        /\ PairRemove(p)
        /\ Log(Event("remove", <<>>, <<>>))
    \/ \E j \in 1..2 :
        /\ Len(hist) < MaxPairOps
        /\ PairCreateLink(PathDX, j)
        /\ Log(Event("create_link", <<>>, <<>>))
    \/ \E s, d \in PairPaths :
        /\ Len(hist) < MaxPairOps
        /\ s # d
        /\ PairMoveFile(s, d)
        /\ Log(Event("move_file", <<>>, <<>>))
    \/  /\ Len(hist) < MaxPairOps
        /\ PairFinish
        /\ Log(Event("finish", <<>>, <<>>))
    \/  /\ Len(hist) < MaxPairOps
        /\ PairReopen
        /\ Log(Event("reopen", <<>>, <<>>))

SpecPair == InitPair /\ [][NextPair]_vars

-----------------------------------------------------------------------------
(* dir.rs on any descriptor vector: Directory::from(descriptors), then find, create and remove *)

MaxTreeLen == 3
MaxTreeOps == 2

\* the files "d" and "a", and directories "d" that claim no child, one, two and u32::MAX
TreeDescs ==
    {[FileSample EXCEPT !.name = DescriptorNew(<<100>>, 1, 5).name],
     [FileSample2 EXCEPT !.name = DescriptorNew(<<97>>, 2, 3).name],
     DescriptorDir(<<100>>, 0), DescriptorDir(<<100>>, 1), DescriptorDir(<<100>>, 2),
     DescriptorDir(<<100>>, U32Mod - 1)}
PathDASlash == <<100, 47, 97, 47>>  \* "d/a/"
TreePaths == {<<>>, PathA, PathD, PathDA, PathDX, PathXSlash, PathDASlash}

InitTree ==
    /\ facade = "tree"
    /\ archive_key = K1
    /\ pc = "editing"
    /\ file = <<>>
    /\ synced = TRUE
    /\ blocks = <<>>
    /\ directory \in UNION {[1..n -> TreeDescs] : n \in 0..MaxTreeLen}
    /\ high_mark = 0
    /\ ret = Idle
    /\ base = [file |-> <<>>, info |-> HeaderTemplate(0, 0).info, directory |-> <<>>, orig |-> <<>>]
    /\ hist = <<>>
    /\ rng = 0

\* dir::find(p): val is the range of the slice returned
Find(p) ==
    /\ pc = "editing"
    /\ \E r \in {find(directory, p)} :
           ret' = [Ret("find", IF r.end > r.start THEN "Some" ELSE "None", p, <<r.start, r.end>>)
                      EXCEPT !.before = directory]
    /\ UNCHANGED <<facade, archive_key, pc, file, synced, blocks, directory, high_mark, rng, base>>

NextTree ==
    \/ \E p \in TreePaths :
        /\ Len(hist) < MaxTreeOps
        /\ Find(p)
        /\ Log(Event("find", <<>>, <<>>))
    \/ \E p \in TreePaths :
        /\ Len(hist) < MaxTreeOps
        /\ Create(p)
        /\ Log(Event("create", <<>>, <<>>))
    \/ \E p \in TreePaths :
        /\ Len(hist) < MaxTreeOps
        /\ Remove(p)
        /\ Log(Event("remove", <<>>, <<>>))

SpecTree == InitTree /\ [][NextTree]_vars

-----------------------------------------------------------------------------
(* One editing session that reserves space through the edit-file handle:
   edit_file(p).set_content(1, content_size).allocate_data() *)

MaxAllocs == 4

AllocPaths == {PathA, PathB}
AllocSizes == {3, U32Mod - 1}

\* FileEditFile::allocate_data in a build with or without overflow checks
file_allocate_data(desc, mark, checked) ==
    Let(bytes2blocks(desc.content_size), LAMBDA size :
        [panic     |-> checked /\ mark + size >= U32Mod,
         desc      |-> [desc EXCEPT !.section.offset = mark, !.section.size = size],
         high_mark |-> (mark + size) % U32Mod])

\* MemoryEditFile::allocate_data
mem_allocate_data(bs, desc) ==
    Let(bytes2blocks(desc.content_size), LAMBDA size :
        [blocks |-> IF Len(bs) + size < UsizeMod THEN bs \o ZeroBlocks(size) ELSE bs,
         desc   |-> [desc EXCEPT !.section.offset = Len(bs) % U32Mod, !.section.size = size]])

\* edit_file(p).set_content(1, content_size).allocate_data(); val keeps the section handed out,
\* the high mark before the call and the content_size
AllocateData(p, content_size, checked) ==
    /\ pc = "editing"
    /\ \E c \in {create(directory, p)} :
       \E a \in {IF facade = "file"
                 THEN file_allocate_data(set_content(c.dir[c.i + 1], 1, content_size),
                                         high_mark, checked)
                 ELSE mem_allocate_data(blocks, set_content(c.dir[c.i + 1], 1, content_size))
                          @@ [panic |-> FALSE, high_mark |-> high_mark]} :
        /\ pc' = IF a.panic THEN "closed" ELSE "editing"
        /\ directory' = IF a.panic THEN <<>> ELSE [c.dir EXCEPT ![c.i + 1] = a.desc]
        /\ high_mark' = IF a.panic THEN high_mark ELSE a.high_mark
        /\ blocks' = IF facade = "file" THEN blocks ELSE a.blocks
        /\ ret' = [Ret("allocate_data", IF a.panic THEN "panic" ELSE "Ok", p,
                       [section |-> a.desc.section,
                        mark |-> IF facade = "file" THEN high_mark ELSE mem_high_mark(blocks),
                        content_size |-> content_size])
                      EXCEPT !.before = directory]
    /\ UNCHANGED <<facade, archive_key, file, synced, rng, base>>

NextAlloc ==
    \/ \E p \in AllocPaths, content_size \in AllocSizes, checked \in BOOLEAN :
        /\ Len(hist) < MaxAllocs
        /\ AllocateData(p, content_size, checked)
        /\ Log(Event("allocate_data", p, ret'.val))
    \/ \E p \in AllocPaths, d \in Datas :
        /\ Len(hist) < MaxAllocs
        /\ CreateFile(p, d)
        /\ Log(Event("create_file", p, d))
    \/ \E p \in AllocPaths :
        /\ Len(hist) < MaxAllocs
        /\ Remove(p)
        /\ Log(Event("remove", p, <<>>))

SpecAlloc == InitEdit /\ [][NextAlloc]_vars

-----------------------------------------------------------------------------
(* A MemoryEditor whose caller also links a descriptor it built itself, then gc *)

MaxGcOps == 4

NextGc ==
    \/ \E p \in MemPaths, d \in Datas :
        /\ Len(hist) < MaxGcOps
        /\ CreateFile(p, d)
        /\ Log(Event("create_file", <<>>, <<>>))
    \/ \E p \in MemPaths :
        /\ Len(hist) < MaxGcOps
        /\ Remove(p)
        /\ Log(Event("remove", <<>>, <<>>))
    \/ \E src \in Held \cup {BigFile} :
        /\ Len(hist) < MaxGcOps
        /\ CreateLink(PathDX, src)
        /\ Log(Event("create_link", <<>>, <<>>))
    \/  /\ Len(hist) < MaxGcOps
        /\ Gc
        /\ Log(Event("gc", <<>>, <<>>))

SpecGc == InitMem /\ [][NextGc]_vars

-----------------------------------------------------------------------------
(* A MemoryEditor that holds files, and the Directory methods it inherits through DerefMut *)

MaxPayOps == 3

PathDXSlash == <<100, 47, 120, 47>>     \* "d/x/"
PayPaths == {PathB, PathD, PathDXSlash}

NextPay ==
    \/ \E p \in PayPaths :
        /\ Len(hist) < MaxPayOps
        /\ CreateFile(p, SampleData)
        /\ Log(Event("create_file", <<>>, <<>>))
    \/ \E p \in PayPaths :
        /\ Len(hist) < MaxPayOps
        /\ Remove(p)
        /\ Log(Event("remove", <<>>, <<>>))
    \/ \E p \in PayPaths :
        /\ Len(hist) < MaxPayOps
        /\ CreateDir(p)
        /\ Log(Event("create_dir", <<>>, <<>>))
    \/ \E p \in PayPaths, src \in Held :
        /\ Len(hist) < MaxPayOps
        /\ CreateLink(p, src)
        /\ Log(Event("create_link", <<>>, <<>>))
    \/ \E s \in PayPaths, d \in PayPaths :
        /\ Len(hist) < MaxPayOps
        /\ MoveFile(s, d)
        /\ Log(Event("move_file", <<>>, <<>>))

SpecPay == InitMem /\ [][NextPay]_vars

-----------------------------------------------------------------------------
(* The properties *)

HeaderOf(f) == SubSeq(f, 1, HeaderBLOCKS_LEN)
Openers == {"FileEditor::open", "MemoryEditor::from_bytes", "FileReader::open", "MemoryReader::from_bytes"}
\* the blocks an opener was given: the file, or the whole blocks of the first ret.val[1] bytes
Given == IF facade = "file" THEN file ELSE SubSeq(file, 1, ret.val[1] \div BLOCK_SIZE)
\* the blocks the open reader or editor reads from
Stored == IF facade = "file" THEN file ELSE blocks
\* the session, or what a drop or a failed finish left of it
Uncommitted == InSession \/ ret.op = "drop" \/ (ret.op = "finish" /\ ret.kind = "Io")

\* C1: in both facades, for every path p, data d and key K: on an empty archive
\* create_file(p, d, K) returns, and after finish(K) and reopening with K,
\* read_data(find_file(p), K) succeeds and returns exactly d.
C1_RoundTrip ==
    /\ (ret.op = "create_file" /\ Len(hist) = 2 /\ hist[1].ev = "open") => ret.kind = "Ok"
    /\ (/\ ret.op = "read_data" /\ pc = "reading" /\ Len(hist) = 3
        /\ hist[1].ev = "open" /\ hist[2].ev = "create_file" /\ hist[3].ev = "finish"
        /\ ret.path = hist[2].path)
       => (ret.kind = "Ok" /\ ret.val = hist[2].data)

\* C2: from FileEditor::open until the header write of finish completes, the old header, the old
\* payload and the old directory region [offset, offset + size x 8) are as they were at open, so
\* the file opens with the directory and the file contents it had before the session.
C2_CrashTolerance ==
    (facade = "file" /\ Uncommitted) =>
        /\ \A i \in 1..(base.info.directory.offset + (base.info.directory.size * DescriptorBLOCKS_LEN)) :
               file[i] = base.file[i]
        /\ \E r \in {read_header(file, archive_key)} :
               /\ r.kind = "Ok"
               /\ r.directory = base.directory
        /\ \A j \in 1..Len(base.directory) :
               is_file(base.directory[j]) =>
                   file_read_data(file, base.directory[j], archive_key)
                       = file_read_data(base.file, base.directory[j], archive_key)

\* C3: FileEditor::open initialises high_mark to directory.offset + directory.size x 8,
\* the first block after the existing directory.
C3_OpenHighMark ==
    (ret.op = "FileEditor::open" /\ ret.kind = "Ok") =>
        high_mark = base.info.directory.offset + (base.info.directory.size * DescriptorBLOCKS_LEN)

\* C4: FileEditor::finish writes the directory at high_mark, then syncs, then writes the header
\* at block 0: the header changes only after the sync returned successfully, with the directory
\* stored at high_mark, and then the file opens with that directory; a failed directory write or
\* sync returns the error and leaves the header as it was.
C4_FinishOrder ==
    [][facade = "file" =>
        /\ (HeaderOf(file') # HeaderOf(file)) =>
               /\ pc = "synced" /\ synced
               /\ SubSeq(file, high_mark + 1, high_mark + (Len(directory) * DescriptorBLOCKS_LEN))
                      = finish_encrypt(high_mark, directory, archive_key, rng).dir_blocks
               /\ ret'.op = "finish" /\ ret'.kind = "Ok"
               /\ \E r \in {read_header(file', archive_key)} :
                      r.kind = "Ok" /\ r.directory = directory /\ r.info.directory.offset = high_mark
        /\ (pc = "dir_written" /\ pc' = "synced") => synced'
        /\ (ret'.op = "finish" /\ ret'.kind = "Io") =>
               (pc' = "closed" /\ HeaderOf(file') = HeaderOf(file))
        /\ (ret'.op = "finish" /\ ret'.kind = "Ok") => pc = "synced"
    ]_vars

C4_Witness ==
    /\ facade = "file" /\ ret.op = "finish" /\ ret.kind = "Ok"
    /\ read_header(file, archive_key).directory # <<>>

\* C5: a file whose stored ciphertext differs from what was written is not read back, read_data
\* returns InvalidData and no bytes; with the ciphertext as written it returns the original
\* bytes; and no read changes the stored blocks.
C5_TamperedNeverRead ==
    /\ [](  (/\ ret.op = "read_data" /\ ret.kind # "NotFound"
             /\ directory = read_header(base.orig, archive_key).directory)
          => \E r \in {range_usize(directory[find_file(directory, ret.path).val + 1].section)} :
                 IF SubSeq(Stored, r.start + 1, r.end) # SubSeq(base.orig, r.start + 1, r.end)
                 THEN ret.kind = "InvalidData" /\ ret.val = <<>>
                 ELSE ret.kind = "Ok" /\ ret.val = SampleData)
    /\ [][ret'.op = "read_data" => (file' = file /\ blocks' = blocks /\ directory' = directory)]_vars

C5_Witness ==
    /\ ret.op = "read_data" /\ ret.kind = "InvalidData" /\ ret.val = <<>>
    /\ file # base.orig

\* C6: all four openers fail with InvalidData when the directory ciphertext does not verify
\* against the MAC in the header's directory section: whenever one returns a reader or an
\* editor, the directory blocks it was given verify.
C6_DirectoryMac ==
    (ret.op \in Openers /\ ret.kind = "Ok") =>
        \E d \in {decrypt_header(HeaderOf(Given), ret.k).info.directory} :
            decrypt_section(SubSeq(Given, d.offset + 1, d.offset + (d.size * DescriptorBLOCKS_LEN)),
                            d, ret.k).ok

\* C7: an open succeeds only if the header MAC verifies under the given key and the version is
\* the magic; with a wrong key, an altered header or another version it fails with InvalidData.
C7_HeaderAuth ==
    ret.op \in Openers =>
        /\ ret.kind = "Ok" => decrypt_header(HeaderOf(Given), ret.k).ok
        /\ (/\ Given = file
            /\ \/ ret.k # archive_key
               \/ HeaderOf(file) # HeaderOf(base.orig)
               \/ decrypt_header(HeaderOf(base.orig), archive_key).info.version # VERSION)
           => ret.kind = "InvalidData"

\* C8: MemoryEditor::from_bytes returns InvalidInput when the length is not a multiple of the
\* block size, InvalidData when the input is too short, the version or an authentication check
\* fails or the directory range is out of bounds, and it never aborts.
C8_FromBytes ==
    ret.op = "MemoryEditor::from_bytes" =>
        /\ ret.kind # "panic"
        /\ (ret.val[1] % BLOCK_SIZE # 0) => ret.kind = "InvalidInput"
        /\ (/\ ret.val[1] % BLOCK_SIZE = 0
            /\ \/ Len(Given) < HeaderBLOCKS_LEN
               \/ \E h \in {decrypt_header(HeaderOf(Given), ret.k)} :
                      \/ ~h.ok
                      \/ h.info.directory.offset + (h.info.directory.size * DescriptorBLOCKS_LEN) > Len(Given))
           => ret.kind = "InvalidData"

\* C9: create_file on a path at which a file exists overwrites it: find_file(path) then gives a
\* descriptor whose read_data is the new data, and the directory has no additional descriptor.
C9_Overwrite ==
    (ret.op = "create_file" /\ ret.kind = "Ok" /\ find_file(ret.before, ret.path).some) =>
        /\ Len(directory) = Len(ret.before)
        /\ \E f \in {find_file(directory, ret.path)} :
               /\ f.some
               /\ read_data(directory[f.val + 1]) = [kind |-> "Ok", val |-> ret.val]

\* C10: remove of a path that find does not find returns None and leaves every descriptor as it
\* was, and so does removing a path a second time.
C10_RemoveMissing ==
    /\ (ret.op = "remove" /\ ~find_desc(ret.before, ret.path).some) =>
           (ret.kind = "None" /\ directory = ret.before)
    /\ (ret.op = "remove" /\ Len(hist) >= 2 /\ hist[Len(hist) - 1] = hist[Len(hist)]) =>
           (ret.kind = "None" /\ directory = ret.before)

-----------------------------------------------------------------------------
(* The directory as a flat pre-order sequence *)

\* every directory descriptor of the window [i, end) keeps its children inside the window
RECURSIVE subtree_ok(_, _, _)
subtree_ok(dir, i, end) ==
    IF i >= end THEN TRUE
    ELSE IF is_dir(dir[i + 1])
         THEN /\ i + 1 + dir[i + 1].content_size <= end
              /\ subtree_ok(dir, i + 1, i + 1 + dir[i + 1].content_size)
              /\ subtree_ok(dir, i + 1 + dir[i + 1].content_size, end)
    ELSE subtree_ok(dir, i + 1, end)

\* C11: from the empty directory, after any sequence of create, create_dir, create_link, remove and
\* move_file, every directory descriptor at index i with content_size k has i + 1 + k <= the end
\* of its enclosing subtree, so that k counts its descendants: no content_size underflows or
\* exceeds the remaining window.
C11_SubtreeCount == subtree_ok(directory, 0, Len(directory))

\* the last component of a path
RECURSIVE last_component(_)
last_component(path) ==
    Let(ComponentLen(path, 0), LAMBDA k :
        IF k = Len(path) THEN path ELSE last_component(From(path, k + 1)))

\* C12: from the empty directory, after any sequence of create(path_i), find_desc(path_i) gives the
\* descriptor create(path_i) returned: it is a descriptor named by the last component of path_i,
\* and for the latest create it is at the index create returned.
C12_CreateFind ==
    (pc = "editing" /\ ret.op = "create" /\ \A i \in 1..Len(hist) : hist[i].ev = "create") =>
        /\ find_desc(directory, ret.path) = Some(ret.val[1])
        /\ \A i \in 1..Len(hist) :
               \E f \in {find_desc(directory, hist[i].path)} :
                   /\ f.some
                   /\ NameGet(directory[f.val + 1].name) = last_component(hist[i].path)

\* the paths a path becomes when any of its separators are exchanged for the other one
RECURSIVE SepVariants(_)
SepVariants(p) ==
    IF Len(p) = 0 THEN {<<>>}
    ELSE {<<c>> \o t : c \in (IF IsSep(p[1]) THEN {SLASH, BACKSLASH} ELSE {p[1]}),
                       t \in SepVariants(Tail(p))}

PathDAX == <<100, 47, 97, 47, 120>>     \* "d/a/x"
ProbePaths == {PathDA, PathDbA, PathDX, PathXSlash, PathDAX}

\* C13: '/' and '\' are interchangeable at every level: on every directory, find, create and remove
\* give the same result for a path and for the path with any of its separators exchanged.
C13_Separators ==
    pc = "editing" =>
        \A p \in ProbePaths :
            \E f \in {find(directory, p)}, c \in {create(directory, p)}, r \in {remove(directory, p)} :
                \A q \in SepVariants(p) \ {p} :
                    /\ find(directory, q) = f
                    /\ create(directory, q) = c
                    /\ remove(directory, q) = r

\* "d\a" was created below d and is found as "d/a", and "d/a/x" descends two levels
C13_Witness ==
    /\ pc = "editing"
    /\ ret.op = "create"
    /\ ret.path = PathDbA
    /\ find_desc(directory, PathDA) = Some(ret.val[1])
    /\ ret.val[1] > 0
    /\ create(directory, PathDAX).i = ret.val[1] + 1

\* what create_link and move_file copy from a file descriptor
content_of(desc) ==
    [content_type |-> desc.content_type, content_size |-> desc.content_size, section |-> desc.section]

\* the number of file descriptors of a directory
files(dir) == Cardinality({i \in 1..Len(dir) : is_file(dir[i])})

\* C19: move_file(src, dest) returns false and leaves the directory as it was when src is missing
\* or a directory; otherwise it returns true, find_file(dest) has the content_type, content_size
\* and section of the source, no file is found at src any more (unless dest is src), and the number
\* of file descriptors is the same.
C19_MoveFile ==
    ret.op = "move_file" =>
        \E s \in {find_desc(ret.before, ret.path)} :
            IF ~s.some \/ is_dir(ret.before[s.val + 1])
            THEN ret.kind = "false" /\ directory = ret.before
            ELSE /\ ret.kind = "true"
                 /\ \E f \in {find_file(directory, ret.val)} :
                        f.some /\ content_of(directory[f.val + 1]) = content_of(ret.before[s.val + 1])
                 /\ ret.path \in SepVariants(ret.val) \/ ~find_file(directory, ret.path).some
                 /\ files(directory) = files(ret.before)

\* C16: fsck returns false exactly when it logged at least one error line, errors inside
\* sub-directories included.
C16_FsckFalseIffLogged ==
    (ret.op = "fsck" /\ ret.kind # "panic") => (ret.kind = "false" <=> ret.val[1] > 0)

\* C17: fsck never throws: whatever the descriptors and the high mark, a file section larger than
\* the high mark and a directory count beyond its window included, it returns a boolean without
\* a panic and without an arithmetic overflow.
C17_FsckTotal ==
    ret.op = "fsck" => (ret.kind \in {"true", "false"} /\ ~ret.val[2])

\* C14: gc preserves content: every file descriptor whose section lay inside the blocks before
\* MemoryEditor::gc reads the same bytes after it, under every key, descriptors linked to one
\* section included.
C14_GcPreserves ==
    ret.op = "gc" =>
        /\ Len(directory) = Len(ret.before)
        /\ \A j \in 1..Len(ret.before) :
               (is_file(ret.before[j]) /\ RangeInside(range_usize(ret.before[j].section), Len(ret.val))) =>
                   \A k \in Keys :
                       mem_read_data(blocks, directory[j], k) = mem_read_data(ret.val, ret.before[j], k)

\* gc moved the section of a file that still reads its five bytes, two descriptors sharing a section
C14_Witness ==
    /\ ret.op = "gc"
    /\ \E i, j \in 1..Len(ret.before) :
           /\ i # j
           /\ is_file(ret.before[i])
           /\ is_file(ret.before[j])
           /\ ret.before[i].section = ret.before[j].section
           /\ directory[j].section.offset # ret.before[j].section.offset
           /\ mem_read_data(blocks, directory[j], K1) = [kind |-> "Ok", val |-> SampleData]

\* C15: in every state of a MemoryEditor reached from new() by create_file, remove and gc, every
\* file descriptor's section has HeaderBLOCKS_LEN <= offset, offset + size <= high_mark() and
\* bytes2blocks(content_size) <= size, so that fsck(directory, high_mark()) succeeds.
C15_MemoryFsck ==
    (pc = "editing" /\ \A i \in 1..Len(hist) : hist[i].ev \in {"create_file", "remove", "gc"}) =>
        /\ \A j \in 1..Len(directory) :
               is_file(directory[j]) =>
                   /\ HeaderBLOCKS_LEN <= directory[j].section.offset
                   /\ directory[j].section.offset + directory[j].section.size <= mem_high_mark(blocks)
                   /\ bytes2blocks(directory[j].content_size) <= directory[j].section.size
        /\ \A checked \in BOOLEAN :
               \E r \in {fsck(directory, mem_high_mark(blocks), checked)} : r.success /\ ~r.panic

\* C18: create_link(path, src) with src a file descriptor, a copy of a since removed one included,
\* creates a descriptor at path with src's content_type, content_size and section, so that
\* read_data gives the same through both; with src a directory descriptor the directory stays as
\* it was.
C18_CreateLink ==
    (facade = "memory" /\ ret.op = "create_link") =>
        IF is_file(ret.val[1])
        THEN /\ ret.kind = "Ok"
             /\ \E f \in {find_file(directory, ret.path)} :
                    /\ f.some
                    /\ content_of(directory[f.val + 1]) = content_of(ret.val[1])
                    /\ \A k \in Keys :
                           mem_read_data(blocks, directory[f.val + 1], k) = mem_read_data(blocks, ret.val[1], k)
        ELSE directory = ret.before

\* the blocks a section names in what is stored: the file, or the blocks of the memory editor
section_blocks(stored, section) ==
    Let(range_usize(section), LAMBDA r : SubSeq(stored, r.start + 1, r.end))

\* C20: reencrypt_data(old_key, key) on a file whose MAC does not verify under old_key leaves the
\* stored ciphertext blocks and the nonce and mac of the section as they were and reports the
\* failure, through the memory edit-file handle and through the file one.
C20_ReencryptInvalid ==
    (ret.op = "reencrypt_data"
        /\ ~decrypt_section(section_blocks(ret.val.stored, ret.before[ret.val.i].section),
                            ret.before[ret.val.i].section, ret.k).ok) =>
        /\ ret.kind \notin {"Ok", "panic"}
        /\ (IF facade = "file" THEN file ELSE blocks) = ret.val.stored
        /\ directory = ret.before


\* C21: read_data on a directory descriptor returns InvalidInput whatever its section names, with
\* no bytes; on a file descriptor whose section lies in the archive and authenticates under the
\* key given it returns the first min(block size x section.size, content_size) bytes of the
\* decrypted section.
C21_ReadData ==
    (ret.op = "read_data" /\ Len(ret.before) = 1) =>
        \E desc \in {ret.before[1]} :
            IF ~is_file(desc) THEN ret.kind = "InvalidInput" /\ ret.val = <<>>
            ELSE (RangeInside(range_usize(desc.section), Len(Stored))
                    /\ decrypt_section(section_blocks(Stored, desc.section), desc.section, ret.k).ok)
                 => /\ ret.kind = "Ok"
                    /\ ret.val = SubSeq(BlocksAsBytes(decrypt_section(section_blocks(Stored, desc.section),
                                                                      desc.section, ret.k).blocks),
                                        1, Min(BLOCK_SIZE * desc.section.size, desc.content_size))

\* a file descriptor shorter than its section was read, and one longer than it
C21_Witness ==
    /\ ret.op = "read_data" /\ ret.kind = "Ok" /\ facade = "file"
    /\ ret.before[1].content_size = U32Mod - 1
    /\ ret.val = SampleData \o <<0, 0, 0>>
C21_WitnessDir ==
    /\ ret.op = "read_data" /\ ret.kind = "InvalidInput"
    /\ is_dir(ret.before[1]) /\ ret.before[1].section.offset > Len(Stored)

\* the section lies inside the stored blocks
section_inside(section) == RangeInside(range_usize(section), Len(Stored))

\* C22: read_section on a section that does not lie inside the archive's blocks, and read_into
\* with [byte_offset, byte_offset + dest.len) not inside the bytes of the section, return
\* InvalidInput in both facades, and the call leaves dest, the directory and the stored blocks
\* as they were.
C22_Bounds ==
    /\ []((ret.op = "read_section" /\ ~section_inside(ret.before[1])) =>
              (ret.kind = "InvalidInput" /\ ret.val = <<>>))
    /\ []((/\ ret.op = "read_into"
           /\ section_inside(ret.before[1].section)
           /\ decrypt_section(section_blocks(Stored, ret.before[1].section),
                              ret.before[1].section, ret.k).ok
           /\ ret.before[2] + ret.before[3] > BLOCK_SIZE * ret.before[1].section.size) =>
              (ret.kind = "InvalidInput" /\ ret.val = DestFill(ret.before[3])))
    /\ [][ret'.op \in {"read_section", "read_into"} =>
              (file' = file /\ blocks' = blocks /\ directory' = directory)]_vars

\* C23: a FileReader opened on the file at any point between FileEditor::open and the header
\* write of finish opens successfully with the directory the archive had before the session,
\* and its read_data on every file of that directory, at that point or any later one of the
\* session, returns the contents the file had before the session.
C23_ReaderIsolation ==
    (facade = "file" /\ InSession) =>
        /\ read_header(file, archive_key).kind = "Ok"
        /\ read_header(file, archive_key).directory = base.directory
        /\ \A j \in 1..Len(base.directory) :
               is_file(base.directory[j]) =>
                   \E r \in {file_read_data(file, base.directory[j], archive_key)} :
                       /\ r.kind = "Ok"
                       /\ r = file_read_data(base.file, base.directory[j], archive_key)

\* C24: decrypt_section under the key of encrypt_section, on the blocks and the section as
\* encrypt_section left them, reports authentic and restores the block array, for every block
\* array, key, nonce and section.
C24_AeadRoundTrip ==
    (ret.op = "decrypt_section" /\ ret.k = archive_key /\ hist = <<>>) =>
        (ret.kind = "true" /\ blocks = base.plain)

C24_Witness ==
    /\ ret.op = "decrypt_section" /\ ret.kind = "true"
    /\ Len(blocks) = MaxBlocks /\ blocks = base.plain /\ base.cipher # base.plain
    /\ directory[1].section.offset = 7

\* C25: after one bit of the ciphertext, of section.mac or of section.nonce was inverted,
\* decrypt_section under the key of encrypt_section reports inauthentic.
C25_AeadIntegrity ==
    (ret.op = "decrypt_section" /\ ret.k = archive_key /\ hist # <<>>) => ret.kind = "false"

C25_Witness ==
    /\ ret.op = "decrypt_section" /\ ret.k = archive_key /\ ret.kind = "false"
    /\ hist # <<>> /\ hist[1].data[1] = "nonce"
    /\ Len(blocks) = MaxBlocks

\* C26: under the same expanded key decrypt undoes encrypt and encrypt undoes decrypt, and with
\* the key of test_vectors the plaintext of test_vectors encrypts to its ciphertext, which
\* decrypts back to the plaintext.
C26_CipherInverse ==
    /\ [][/\ (ret.op = "encrypt" /\ ret'.op = "decrypt") => blocks' = <<ret.val>>
          /\ (ret.op = "decrypt" /\ ret'.op = "encrypt") => blocks' = <<ret.val>>]_vars
    /\ []((archive_key = VectorKey /\ ret.op = "encrypt" /\ ret.val = VectorPlaintext) =>
               blocks[1] = VectorCiphertext)
    /\ []((archive_key = VectorKey /\ ret.op = "decrypt" /\ ret.val = VectorCiphertext) =>
               blocks[1] = VectorPlaintext)

C26_Witness ==
    /\ archive_key = VectorKey /\ base.plain = VectorPlaintext
    /\ hist = <<Event("encrypt", <<>>, <<>>), Event("decrypt", <<>>, <<>>)>>
    /\ ret.val = VectorCiphertext /\ blocks[1] = VectorPlaintext

\* FileEditor::high_mark / MemoryEditor::high_mark of the open editor
editor_high_mark == IF facade = "file" THEN high_mark ELSE mem_high_mark(blocks)

\* an editor was opened on an archive in which no file was ever created
EmptyReopened ==
    /\ ret.op \in {"FileEditor::open", "MemoryEditor::from_bytes"}
    /\ ret.kind = "Ok"
    /\ Count(hist, "create_file") = 0

\* C27 as stated: an empty archive, created, finished and reopened for editing, has an empty
\* directory and a high mark of 2.
C27_EmptyReopen_Two ==
    EmptyReopened => (directory = <<>> /\ editor_high_mark = 2)

\* C27: an empty archive, created, finished and reopened for editing, has an empty directory and
\* a high mark of Header::BLOCKS_LEN, the five blocks the header occupies.
C27_EmptyReopen ==
    EmptyReopened => (directory = <<>> /\ editor_high_mark = HeaderBLOCKS_LEN)

C27_Witness ==
    /\ EmptyReopened /\ Count(hist, "finish") = 1
    /\ ret.op = "FileEditor::open" /\ high_mark = HeaderBLOCKS_LEN /\ directory = <<>>

\* the descriptors agree in name, content type, content size and in offset and size of the section
same_entries(d1, d2) ==
    /\ Len(d1) = Len(d2)
    /\ \A j \in 1..Len(d1) :
        /\ d1[j].name = d2[j].name
        /\ d1[j].content_type = d2[j].content_type
        /\ d1[j].content_size = d2[j].content_size
        /\ d1[j].section.offset = d2[j].section.offset
        /\ d1[j].section.size = d2[j].section.size

\* C28: driven by the same calls from a freshly created empty archive, the MemoryEditor and the
\* FileEditor hold directories that agree in names, content types, content sizes and section
\* offsets and sizes, and report the same high_mark, after every step.
C28_Facades ==
    (facade = "pair" /\ pc = "editing") =>
        /\ same_entries(directory, base.directory)
        /\ high_mark = mem_high_mark(blocks)

\* C29: create on a path that find finds inserts nothing and returns the descriptor found: the
\* directory is left as it was, in length, order and every content_size, and the descriptor
\* returned is the one find gives, named by the last component of the path.
C29_CreateExisting ==
    (ret.op = "create" /\ find_desc(ret.before, ret.path).some) =>
        /\ ret.kind = "Ok"
        /\ directory = ret.before
        /\ ret.val[1] = find_desc(ret.before, ret.path).val
        /\ NameGet(directory[ret.val[1] + 1].name) = last_component(ret.path)

\* the components of a path, a separator at its end closing the last one
RECURSIVE components(_)
components(path) ==
    IF path = <<>> THEN <<>>
    ELSE Let(ComponentLen(path, 0), LAMBDA k :
             <<SubSeq(path, 1, k)>> \o (IF k = Len(path) THEN <<>> ELSE components(From(path, k + 1))))

\* the first descriptor named name among the siblings from j on in a window that ends at end;
\* files count only if any
RECURSIVE sibling(_, _, _, _, _)
sibling(dir, name, j, end, any) ==
    IF j >= end THEN None
    ELSE IF NameGet(dir[j + 1].name) = name /\ (any \/ is_dir(dir[j + 1])) THEN Some(j)
    ELSE sibling(dir, name, next_sibling(dir[j + 1], j, end), end, any)

\* where the components of a path lead in the window [i, end): the number k of components
\* missing, the end of the child window of the deepest existing parent and the matched ancestors
RECURSIVE locate(_, _, _, _, _)
locate(dir, comps, i, end, anc) ==
    IF Len(comps) = 1
    THEN [k |-> IF sibling(dir, comps[1], i, end, TRUE).some THEN 0 ELSE 1,
          at |-> end, anc |-> anc]
    ELSE Let(sibling(dir, comps[1], i, end, FALSE), LAMBDA s :
             IF s.some
             THEN locate(dir, Tail(comps), s.val + 1, next_sibling(dir[s.val + 1], s.val, end),
                         anc \cup {s.val})
             ELSE [k |-> Len(comps), at |-> end, anc |-> anc])

\* the directory the claim describes after create: the k missing components as directory
\* descriptors at loc.at, each counting those after it, and the ancestors grown by k
created(dir, comps, loc) ==
    SubSeq([j \in 1..loc.at |->
                IF (j - 1) \in loc.anc
                THEN [dir[j] EXCEPT !.content_size = (@ + loc.k) % U32Mod] ELSE dir[j]], 1, loc.at)
        \o SubSeq([n \in 1..loc.k |-> DescriptorDir(comps[Len(comps) - loc.k + n], loc.k - n)], 1, loc.k)
        \o SubSeq(dir, loc.at + 1, Len(dir))

\* C30: create(dir, path) with the last k >= 1 components of the path missing inserts k
\* directory descriptors, named by the missing components in order, each with content_size the
\* number of inserted descriptors after it, contiguously at the end of the child window of the
\* deepest existing parent; it returns the last of them, every matched ancestor's content_size
\* grows by k and every other descriptor keeps its content and its place in the order.
C30_CreateMissing ==
    (ret.op = "create" /\ ret.path # <<>>) =>
        \E comps \in {components(ret.path)} :
        \E loc \in {locate(ret.before, comps, 0, Len(ret.before), {})} :
            loc.k > 0 =>
                /\ ret.kind = "Ok"
                /\ directory = created(ret.before, comps, loc)
                /\ ret.val[1] = loc.at + loc.k - 1
\* every directory of dir[i..end) holds exactly content_size descriptors of that range
RECURSIVE consistent(_, _, _)
consistent(dir, i, end) ==
    IF i >= end THEN i = end
    ELSE IF is_dir(dir[i + 1])
         THEN /\ i + 1 + dir[i + 1].content_size <= end
              /\ consistent(dir, i + 1, i + 1 + dir[i + 1].content_size)
              /\ consistent(dir, i + 1 + dir[i + 1].content_size, end)
    ELSE consistent(dir, i + 1, end)

\* the directories find descends through on its way to the descriptor it returns for path
RECURSIVE find_ancestors(_, _, _, _, _)
find_ancestors(dir, path, i, end, anc) ==
    IF i >= end THEN {}
    ELSE Let(next_sibling(dir[i + 1], i, end), LAMBDA next_i :
         Let(name_eq(dir[i + 1], path), LAMBDA m :
             IF m.some /\ Len(m.val) = 0 THEN anc
             ELSE IF m.some /\ is_dir(dir[i + 1])
                  THEN find_ancestors(dir, m.val, i + 1, next_i, anc \cup {i})
             ELSE find_ancestors(dir, path, next_i, end, anc)))

\* dir without the descriptor at index f, each descriptor of anc holding one child less
without(dir, f, anc) ==
    SubSeq([j \in 1..(Len(dir) - 1) |->
               Let(IF j <= f THEN j ELSE j + 1, LAMBDA k :
                   IF (k - 1) \in anc
                   THEN [dir[k] EXCEPT !.content_size = dir[k].content_size - 1]
                   ELSE dir[k])],
           1, Len(dir) - 1)

\* C31: remove of a path find resolves removes exactly the descriptor find returns first for it and
\* returns a copy of it; each of its ancestors holds exactly one child less; every other descriptor
\* is unchanged and keeps its place, the former children of a removed directory included
C31_RemoveExisting ==
    (/\ ret.op = "remove"
     /\ ret.kind # "panic"
     /\ consistent(ret.before, 0, Len(ret.before))
     /\ find_desc(ret.before, ret.path).some) =>
        Let(find_desc(ret.before, ret.path).val, LAMBDA f :
            /\ ret.kind = "Some"
            /\ remove(ret.before, ret.path).removed = Some(ret.before[f + 1])
            /\ Len(directory) = Len(ret.before) - 1
            /\ directory = without(ret.before, f,
                                   find_ancestors(ret.before, ret.path, 0, Len(ret.before), {})))

\* the names on the way from the root to the descriptor at index j, from ancestor k on
RECURSIVE path_of(_, _, _)
path_of(dir, j, k) ==
    IF k >= j THEN <<NameGet(dir[j + 1].name)>>
    ELSE (IF is_dir(dir[k + 1]) /\ j <= k + dir[k + 1].content_size
          THEN <<NameGet(dir[k + 1].name)>> ELSE <<>>) \o path_of(dir, j, k + 1)

\* the descriptors of dir whose path is path
matching(dir, path) ==
    {j \in 0..(Len(dir) - 1) : path_of(dir, j, 0) = components(path)}

\* C32: find returns the slice of the first descriptor in pre-order whose path matches, a file
\* that shares the name of a later sibling directory being skipped when the path goes on, and
\* the empty slice for the empty path and when nothing matches
C32_FindFirst ==
    (ret.op = "find" /\ consistent(ret.before, 0, Len(ret.before))) =>
        Let(matching(ret.before, ret.path), LAMBDA ms :
            /\ (ret.path = <<>> \/ ms = {}) => ret.val = <<0, 0>>
            /\ (ret.path # <<>> /\ ms # {}) =>
                 \E j \in ms :
                    /\ \A k \in ms : j <= k
                    /\ ret.val = <<j, next_sibling(ret.before[j + 1], j, Len(ret.before))>>)
\* where dir_inc stops at a file whose name matches a component that is not the last one:
\* Some(index of the file and the path from that component on), None when it ends otherwise
RECURSIVE file_in_the_way(_, _, _, _)
file_in_the_way(dir, path, i, end) ==
    IF i >= end THEN None
    ELSE Let(next_sibling(dir[i + 1], i, end), LAMBDA next_i :
         Let(name_eq(dir[i + 1], path), LAMBDA m :
             IF m.some /\ Len(m.val) = 0 THEN None
             ELSE IF m.some /\ is_dir(dir[i + 1]) THEN file_in_the_way(dir, m.val, i + 1, next_i)
             ELSE IF m.some THEN Some([i |-> i, path |-> path])
             ELSE file_in_the_way(dir, path, next_i, end)))

\* C33: when a component of the path that is not the last one matches an existing file, create
\* leaves the file as it was and puts a directory of the same name, holding the remaining
\* components, next to it; find on the created path returns the descriptor create returned
C33_FileInTheWay ==
    (ret.op = "create" /\ file_in_the_way(ret.before, ret.path, 0, Len(ret.before)).some) =>
        Let(file_in_the_way(ret.before, ret.path, 0, Len(ret.before)).val, LAMBDA w :
        Let(components(w.path), LAMBDA comps :
            /\ ret.kind = "Ok"
            /\ Len(directory) = Len(ret.before) + Len(comps)
            /\ directory[w.i + Len(comps) + 1] = ret.before[w.i + 1]
            /\ \A n \in 1..Len(comps) :
                 /\ is_dir(directory[w.i + n])
                 /\ NameGet(directory[w.i + n].name) = comps[n]
                 /\ directory[w.i + n].content_size = Len(comps) - n
            /\ ret.val = <<w.i + Len(comps) - 1>>
            /\ find_desc(directory, ret.path) = Some(ret.val[1])))

\* the descriptor at index j of d2 has the content_type, section and name of the one at i of d1
same_target(d1, i, d2, j) ==
    /\ d2[j + 1].content_type = d1[i + 1].content_type
    /\ d2[j + 1].section = d1[i + 1].section
    /\ d2[j + 1].name = d1[i + 1].name

\* C34: create of a path that did not resolve leaves the lookups of the other paths as they were:
\* a path find_desc resolved before still resolves, to a descriptor with the same content_type,
\* section and name, so a file stays reachable when a directory of its name is created next to it
C34_CreateFrame ==
    (/\ ret.op = "create"
     /\ ret.kind = "Ok"
     /\ consistent(ret.before, 0, Len(ret.before))
     /\ ~find_desc(ret.before, ret.path).some) =>
        \A q \in TreePaths \ {ret.path} :
            find_desc(ret.before, q).some =>
                /\ find_desc(directory, q).some
                /\ same_target(ret.before, find_desc(ret.before, q).val,
                               directory, find_desc(directory, q).val)
\* next_sibling lies in (i, end] for every descriptor of dir and all i < end
sibling_in_range(dir) ==
    \A end \in 1..Len(dir) : \A i \in 0..(end - 1) :
        /\ next_sibling(dir[i + 1], i, end) > i
        /\ next_sibling(dir[i + 1], i, end) <= end

\* C35: next_sibling stays in (i, end] whatever content_size a directory claims, and find, create
\* and remove return on every descriptor vector and path without indexing outside the vector
C35_InRange ==
    /\ sibling_in_range(directory)
    /\ ret.op \in {"find", "create", "remove"} =>
           /\ sibling_in_range(ret.before)
           /\ ret.kind # "panic"
\* the sections allocate_data has handed out in this session, in order
allocated == SelectSeq(hist, LAMBDA e : e.ev = "allocate_data")

\* C36: allocate_data sets section.offset to the high mark before the call and section.size to
\* content_size in blocks rounded up, and raises the high mark by exactly that size; the sections
\* handed out in one session are pairwise disjoint and start at or after the header, and the
\* high mark of the open editor never decreases
C36_BumpAllocator ==
    /\ [](ret.op = "allocate_data" =>
            /\ ret.kind = "Ok"
            /\ ret.val.section.offset = ret.val.mark
            /\ ret.val.section.size * BLOCK_SIZE >= ret.val.content_size
            /\ ret.val.section.size * BLOCK_SIZE < ret.val.content_size + BLOCK_SIZE
            /\ editor_high_mark = ret.val.mark + ret.val.section.size)
    /\ [](\A i, j \in 1..Len(allocated) :
            /\ allocated[i].data.section.offset >= HeaderBLOCKS_LEN
            /\ i < j => allocated[i].data.section.offset + allocated[i].data.section.size
                            <= allocated[j].data.section.offset)
    /\ [][pc' = "editing" => editor_high_mark' >= editor_high_mark]_vars
\* the file descriptors of dir whose section range lies inside len blocks
in_range(dir, j, len) == is_file(dir[j]) /\ RangeInside(range_usize(dir[j].section), len)

\* the blocks gc copies for the descriptors of dir before index j
RECURSIVE copied_before(_, _, _)
copied_before(dir, j, len) ==
    IF j <= 1 THEN 0
    ELSE copied_before(dir, j - 1, len)
             + (IF in_range(dir, j - 1, len) THEN dir[j - 1].section.size ELSE 0)

\* C37: gc changes only section.offset of the file descriptors whose section lies inside the
\* blocks and zeroes the whole section of the other file descriptors; directory descriptors are
\* unchanged; the copied sections lie one after the other from the end of the header in
\* directory order and the high mark is the header plus the sum of their sizes
C37_GcFrame ==
    ret.op = "gc" =>
        /\ Len(directory) = Len(ret.before)
        /\ \A j \in 1..Len(ret.before) :
               directory[j] =
                   IF in_range(ret.before, j, Len(ret.val))
                   THEN [ret.before[j] EXCEPT !.section.offset =
                            HeaderBLOCKS_LEN + copied_before(ret.before, j, Len(ret.val))]
                   ELSE IF is_file(ret.before[j])
                        THEN [ret.before[j] EXCEPT !.section = SectionDefault]
                   ELSE ret.before[j]
        /\ \A i, j \in 1..Len(directory) :
               (i < j /\ in_range(ret.before, i, Len(ret.val)) /\ in_range(ret.before, j, Len(ret.val))) =>
                   directory[i].section.offset + directory[i].section.size <= directory[j].section.offset
        /\ Len(blocks) = HeaderBLOCKS_LEN
                            + copied_before(ret.before, Len(ret.before) + 1, Len(ret.val))
        /\ mem_high_mark(blocks) = Len(blocks)

\* gc moved one file's section, zeroed the section of a descriptor that pointed outside
\* the blocks and left a directory as it was
C37_Witness ==
    /\ ret.op = "gc"
    /\ \E i, j, k \in 1..Len(ret.before) :
           /\ in_range(ret.before, i, Len(ret.val))
           /\ ret.before[i].section.size > 0
           /\ directory[i].section.offset # ret.before[i].section.offset
           /\ is_file(ret.before[j])
           /\ ~in_range(ret.before, j, Len(ret.val))
           /\ directory[j].section = SectionDefault
           /\ is_dir(ret.before[k])
\* read_data(desc, k) of the editor on what is stored
read_stored(stored, desc, k) ==
    IF facade = "file" THEN file_read_data(stored, desc, k) ELSE mem_read_data(stored, desc, k)

\* C38: reencrypt_data(old_key, key) on a file that read_data authenticates under old_key keeps
\* its content: afterwards read_data under key returns the bytes read_data under old_key
\* returned before, and the offset and size of the section are as they were
C38_ReencryptPreserves ==
    (/\ ret.op = "reencrypt_data"
     /\ read_stored(ret.val.stored, ret.before[ret.val.i], ret.k).kind = "Ok") =>
        /\ ret.kind = "Ok"
        /\ read_stored(IF facade = "file" THEN file ELSE blocks, directory[ret.val.i], K2)
             = read_stored(ret.val.stored, ret.before[ret.val.i], ret.k)
        /\ directory[ret.val.i].section.offset = ret.before[ret.val.i].section.offset
        /\ directory[ret.val.i].section.size = ret.before[ret.val.i].section.size

\* a file of five bytes written under K1 was re-encrypted to K2 and no longer reads under K1
C38_Witness ==
    /\ ret.op = "reencrypt_data"
    /\ ret.kind = "Ok"
    /\ ret.k = K1
    /\ read_stored(ret.val.stored, ret.before[ret.val.i], K1) = [kind |-> "Ok", val |-> <<1, 2, 3, 4, 5>>]
    /\ read_stored(IF facade = "file" THEN file ELSE blocks, directory[ret.val.i], K1).kind # "Ok"
    /\ directory[ret.val.i].section.nonce # ret.before[ret.val.i].section.nonce
\* the name of each file descriptor of dir with what read_data returns for it, in order
readings(bs, dir, k) ==
    Let(SelectSeq(dir, LAMBDA desc : is_file(desc)), LAMBDA fs :
        SubSeq([j \in 1..Len(fs) |-> <<fs[j].name, mem_read_data(bs, fs[j], k)>>], 1, Len(fs)))

\* s is t with at most n elements left out
RECURSIVE subsequence(_, _, _)
subsequence(s, t, n) ==
    IF s = <<>> THEN Len(t) <= n
    ELSE IF t = <<>> THEN FALSE
    ELSE \/ Head(s) = Head(t) /\ subsequence(Tail(s), Tail(t), n)
         \/ n > 0 /\ subsequence(s, Tail(t), n - 1)

\* C39: remove, create_dir, create_link and move_file leave the blocks and the high mark of the
\* editor as they were, and every file descriptor that stays in the directory reads the same
\* bytes as before: remove takes at most one reading away, create_dir and create_link keep every
\* reading, move_file keeps all but the one it moves
C39_DirectoryOnly ==
    [][(ret'.op \in {"remove", "create_dir", "create_link", "move_file"} /\ ret'.kind # "panic") =>
        /\ blocks' = blocks
        /\ mem_high_mark(blocks') = mem_high_mark(blocks)
        /\ Let(readings(blocks, directory, archive_key), LAMBDA before :
           Let(readings(blocks', directory', archive_key), LAMBDA after :
               CASE ret'.op = "remove" -> subsequence(after, before, 1)
                 [] ret'.op = "create_dir" -> subsequence(before, after, 0)
                 [] ret'.op = "create_link" -> subsequence(before, after, 1)
                 [] OTHER -> \E j \in 0..Len(before) :
                                subsequence(SubSeq(before, 1, j - 1) \o SubSeq(before, j + 1, Len(before)),
                                            after, 1)))]_vars
====
